---------------------------- MODULE Spec2Model ----------------------------
(***************************************************************************)
(* BewerbungsManager-WebApp: the template renderer (services/textgen.py)   *)
(* and the DIN 5008 letter layout engine (services/pdfgen.py).             *)
(*                                                                         *)
(* A Python str is a finite sequence of symbols; a symbol is a character   *)
(* or an indivisible chunk of characters ("Bewerbung als ", "Fehler").     *)
(* Lengths are integers in the unit pt/127000, in which 1 mm = 360000 and  *)
(* a glyph of AFM width w at size 11 measures w * 11 * 127.                *)
(***************************************************************************)
EXTENDS Integers, Sequences, FiniteSets, TLC

VARIABLES
    clock,      \* days elapsed on the host clock since StartDate
    r_pc,       \* position of the render call: idle, called, defaulted, returned, raised
    r_tpl,      \* template_string of the current render call
    r_in,       \* the context as the caller passed it
    r_ctx,      \* the caller's context dict, which render mutates in place
    r_res,      \* the string render returned / the name of the exception it raised
    r_iters,    \* loop-body executions the template engine performed in the call
    r_day,      \* the clock value at which the call applied its defaults
    r_prev,     \* the previous completed render call: inputs and outcome
    r_calls,    \* number of render calls started
    gen,        \* gen[p]: the locals, canvas and position of generate_pdf call p
    current_margins,    \* self.current_margins of the shared pdf_generator
    current_text_width, \* self.current_text_width of the shared pdf_generator
    wrap,       \* a call of _wrap_text: its arguments and the lines it returned
    fname,      \* a call of generate_filename: its arguments and the name it returned
    html,       \* a call of _parse_html_content: its input and the blocks it returned
    db,         \* the committed tables: users, applications, deleted_records
    session,    \* the logged-in users and the admin request each has in progress
    deletes     \* history: application_delete commits per application content

rvars == <<clock, r_pc, r_tpl, r_in, r_ctx, r_res, r_iters, r_day, r_prev, r_calls>>
pvars == <<gen, current_margins, current_text_width>>
fvars == <<wrap, fname, html>>
dvars == <<db, session, deletes>>

---------------------------------------------------------------------------
(* Bounds of the model *)

\* the host clock advances at most this many days
MaxClock == 1
\* render is called at most this many times in a run
MaxCalls == 2
\* the literal n of a template's {% for i in range(n) %}
MaxRange == 2

---------------------------------------------------------------------------
(* Python values and strings *)

Whitespace == {" ", "\n", "\t"}

RECURSIVE LStrip(_)
LStrip(s) == IF s # <<>> /\ Head(s) \in Whitespace THEN LStrip(Tail(s)) ELSE s

RECURSIVE RStrip(_)
RStrip(s) ==
    IF s # <<>> /\ s[Len(s)] \in Whitespace THEN RStrip(SubSeq(s, 1, Len(s) - 1)) ELSE s

\* str.strip()
Strip(s) == RStrip(LStrip(s))

Range(s) == {s[i] : i \in 1..Len(s)}

DigitStr == <<"0", "1", "2", "3", "4", "5", "6", "7", "8", "9">>
Digit(n) == DigitStr[n + 1]

\* a key that is not in the dict
VAbsent == [t |-> "absent", s |-> <<>>]
VNone == [t |-> "none", s |-> <<>>]
Str(s) == [t |-> "str", s |-> s]
\* a JSON number that the request handler passes through, 0 <= n <= 9
Num(n) == [t |-> "int", s |-> <<Digit(n)>>]

\* Python truth value of a context value
Truthy(v) ==
    CASE v.t = "str" -> v.s # <<>>
      [] v.t = "int" -> v.s # <<"0">>
      [] OTHER -> FALSE

\* dict.get(key): None for a missing key
Get(ctx, key) == IF ctx[key].t = "absent" THEN VNone ELSE ctx[key]

\* 'key' not in context or not context['key']
MissingOrEmpty(ctx, key) == ctx[key].t = "absent" \/ ~Truthy(ctx[key])

\* str(value), as the template engine writes a value into the output
ToStr(v) ==
    CASE v.t = "str" -> v.s
      [] v.t = "int" -> v.s
      [] v.t = "none" -> <<"None">>
      [] OTHER -> <<>>

---------------------------------------------------------------------------
(* The host clock and strftime *)

StartDate == [y |-> 2026, m |-> 11, d |-> 30]

DaysInMonth(m, y) ==
    IF m \in {4, 6, 9, 11} THEN 30
    ELSE IF m # 2 THEN 31
    ELSE IF y % 4 = 0 /\ (y % 100 # 0 \/ y % 400 = 0) THEN 29 ELSE 28

NextDay(dt) ==
    IF dt.d < DaysInMonth(dt.m, dt.y) THEN [dt EXCEPT !.d = @ + 1]
    ELSE IF dt.m < 12 THEN [y |-> dt.y, m |-> dt.m + 1, d |-> 1]
    ELSE [y |-> dt.y + 1, m |-> 1, d |-> 1]

RECURSIVE DateOf(_)
DateOf(n) == IF n = 0 THEN StartDate ELSE NextDay(DateOf(n - 1))

\* date.today()
Today == DateOf(clock)

Pad2(n) == <<Digit(n \div 10), Digit(n % 10)>>
Pad4(n) == <<Digit(n \div 1000), Digit((n \div 100) % 10), Digit((n \div 10) % 10), Digit(n % 10)>>

\* strftime('%d.%m.%Y')
StrftimeDMY(dt) == Pad2(dt.d) \o <<".">> \o Pad2(dt.m) \o <<".">> \o Pad4(dt.y)

---------------------------------------------------------------------------
(* TextGenerator *)

PLACEHOLDERS ==
    {"company", "company_address", "job_title", "subject", "date",
     "contact_person", "your_name", "your_address", "your_email", "your_phone"}

\* outcome of a call: the exception raised ("none" when it returned) and the value
Ret(v) == [exc |-> "none", val |-> v]
Raise(e) == [exc |-> e, val |-> <<>>]

generate_subject_noTitle(job_title) == Ret(<<"Bewerbung">>)

\* job_title.strip() on a value that is no str raises AttributeError
generate_subject(job_title) ==
    IF ~Truthy(job_title) THEN Ret(<<"Bewerbung">>)
    ELSE IF job_title.t # "str" THEN Raise("AttributeError")
    ELSE IF Strip(job_title.s) # <<>> THEN Ret(<<"Bewerbung als ">> \o job_title.s)
    ELSE Ret(<<"Bewerbung">>)

\* lines 78-79; the call of generate_subject may raise
DefaultSubject(ctx) ==
    IF MissingOrEmpty(ctx, "subject")
    THEN LET g == generate_subject(Get(ctx, "job_title"))
         IN  IF g.exc # "none" THEN [exc |-> g.exc, ctx |-> ctx]
             ELSE [exc |-> "none", ctx |-> [ctx EXCEPT !["subject"] = Str(g.val)]]
    ELSE [exc |-> "none", ctx |-> ctx]

DefaultDate_always(ctx, today) == [ctx EXCEPT !["date"] = Str(StrftimeDMY(today))]

\* lines 82-83
DefaultDate(ctx, today) ==
    IF MissingOrEmpty(ctx, "date")
    THEN [ctx EXCEPT !["date"] = Str(StrftimeDMY(today))]
    ELSE ctx

DefaultEmpty_absentOnly(ctx) ==
    [k \in DOMAIN ctx |->
        IF k \in PLACEHOLDERS /\ ctx[k].t = "absent" THEN Str(<<>>) ELSE ctx[k]]

\* lines 86-88
DefaultEmpty(ctx) ==
    [k \in DOMAIN ctx |->
        IF k \in PLACEHOLDERS /\ ctx[k].t \in {"absent", "none"} THEN Str(<<>>) ELSE ctx[k]]

\* lines 77-88 of render: everything before the try block
RenderDefaults(ctx, today) ==
    LET s == DefaultSubject(ctx)
    IN  IF s.exc # "none" THEN s
        ELSE [exc |-> "none", ctx |-> DefaultEmpty(DefaultDate(s.ctx, today))]

---------------------------------------------------------------------------
(* The template engine the renderer delegates to: a template string is the *)
(* sequence of its segments, literal data between the delimiters {{ }} and *)
(* {% %}.                                                                  *)

Data(s) == [k |-> "data", name |-> "", s |-> s, n |-> 0]
\* {{ name }}
Var(name) == [k |-> "var", name |-> name, s |-> <<>>, n |-> 0]
\* {{ name.attr }}
Attr(name, attr) == [k |-> "attr", name |-> name, s |-> <<attr>>, n |-> 0]
\* {% if name %}, {% else %}, {% endif %}
If(name) == [k |-> "if", name |-> name, s |-> <<>>, n |-> 0]
Else == [k |-> "else", name |-> "", s |-> <<>>, n |-> 0]
EndIf == [k |-> "endif", name |-> "", s |-> <<>>, n |-> 0]
\* {% for name in range(n) %}, {% endfor %}
For(name, n) == [k |-> "for", name |-> name, s |-> <<>>, n |-> n]
EndFor == [k |-> "endfor", name |-> "", s |-> <<>>, n |-> 0]
\* {% word %} for a word that is no tag of the engine
Tag(word) == [k |-> "tag", name |-> word, s |-> <<>>, n |-> 0]
\* a {{ that is never closed
Open == [k |-> "open", name |-> "", s |-> <<>>, n |-> 0]

IsBlockTag(seg) == seg.k \in {"if", "else", "endif", "for", "endfor", "tag"}

RECURSIVE TrailingBlanks(_)
TrailingBlanks(s) ==
    IF s # <<>> /\ s[Len(s)] \in {" ", "\t"}
    THEN 1 + TrailingBlanks(SubSeq(s, 1, Len(s) - 1)) ELSE 0

\* lstrip_blocks=True: blanks from the start of a line to a block tag are dropped
LstripBlocks(s, atStart) ==
    LET k == TrailingBlanks(s)
        base == Len(s) - k
    IN  IF k > 0 /\ ((base = 0 /\ atStart) \/ (base > 0 /\ s[base] = "\n"))
        THEN SubSeq(s, 1, base) ELSE s

\* trim_blocks=True: the first newline after a block tag is dropped
TrimBlocks(s) == IF s # <<>> /\ Head(s) = "\n" THEN Tail(s) ELSE s

\* keep_trailing_newline is left False: one newline ending the template is dropped
DropTrailingNewline(s) ==
    IF s # <<>> /\ s[Len(s)] = "\n" THEN SubSeq(s, 1, Len(s) - 1) ELSE s

\* the environment's whitespace control applied to the data segments
Lex(segs) ==
    [i \in 1..Len(segs) |->
        IF segs[i].k # "data" THEN segs[i]
        ELSE LET a == IF i < Len(segs) /\ IsBlockTag(segs[i + 1])
                      THEN LstripBlocks(segs[i].s, i = 1) ELSE segs[i].s
                 b == IF i > 1 /\ IsBlockTag(segs[i - 1]) THEN TrimBlocks(a) ELSE a
                 c == IF i = Len(segs) THEN DropTrailingNewline(b) ELSE b
             IN  [segs[i] EXCEPT !.s = c]]

SyntaxOk == [ok |-> TRUE, msg |-> <<>>]
SyntaxError(msg) == [ok |-> FALSE, msg |-> msg]

RECURSIVE SyntaxScan_noFor(_, _)
SyntaxScan_noFor(segs, stack) ==
    IF segs = <<>>
    THEN IF stack = <<>> THEN SyntaxOk
         ELSE SyntaxError(<<"Unexpected end of template.">>)
    ELSE LET h == Head(segs)
             top == IF stack = <<>> THEN "" ELSE Head(stack)
         IN  CASE h.k = "if" -> SyntaxScan_noFor(Tail(segs), <<h.k>> \o stack)
               [] h.k = "else" /\ top = "if" ->
                    SyntaxScan_noFor(Tail(segs), <<"ifelse">> \o Tail(stack))
               [] h.k = "endif" /\ top \in {"if", "ifelse"} ->
                    SyntaxScan_noFor(Tail(segs), Tail(stack))
               [] h.k \in {"data", "var", "attr"} -> SyntaxScan_noFor(Tail(segs), stack)
               [] h.k = "open" -> SyntaxError(<<"unexpected end of template">>)
               [] h.k = "tag" -> SyntaxError(<<"Encountered unknown tag '", h.name, "'.">>)
               [] OTHER -> SyntaxError(<<"Encountered unknown tag '", h.k, "'.">>)

\* env.from_string: the parser accepts the engine's own tags, here if/else/endif
\* and for/else/endfor, and rejects every other tag and every unbalanced block
RECURSIVE SyntaxScan(_, _)
SyntaxScan(segs, stack) ==
    IF segs = <<>>
    THEN IF stack = <<>> THEN SyntaxOk
         ELSE SyntaxError(<<"Unexpected end of template.">>)
    ELSE LET h == Head(segs)
             top == IF stack = <<>> THEN "" ELSE Head(stack)
         IN  CASE h.k \in {"if", "for"} -> SyntaxScan(Tail(segs), <<h.k>> \o stack)
               [] h.k = "else" /\ top \in {"if", "for"} ->
                    SyntaxScan(Tail(segs),
                        <<IF top = "if" THEN "ifelse" ELSE "forelse">> \o Tail(stack))
               [] h.k = "endif" /\ top \in {"if", "ifelse"} ->
                    SyntaxScan(Tail(segs), Tail(stack))
               [] h.k = "endfor" /\ top \in {"for", "forelse"} ->
                    SyntaxScan(Tail(segs), Tail(stack))
               [] h.k \in {"data", "var", "attr"} -> SyntaxScan(Tail(segs), stack)
               [] h.k = "open" -> SyntaxError(<<"unexpected end of template">>)
               [] h.k = "tag" -> SyntaxError(<<"Encountered unknown tag '", h.name, "'.">>)
               [] OTHER -> SyntaxError(<<"Encountered unknown tag '", h.k, "'.">>)

\* index of the tag closing the block that segs[1] opens; 0 when there is none
RECURSIVE FindEnd(_, _, _)
FindEnd(segs, i, depth) ==
    IF i > Len(segs) THEN 0
    ELSE IF segs[i].k \in {"if", "for"} THEN FindEnd(segs, i + 1, depth + 1)
    ELSE IF segs[i].k \in {"endif", "endfor"}
         THEN IF depth = 0 THEN i ELSE FindEnd(segs, i + 1, depth - 1)
    ELSE FindEnd(segs, i + 1, depth)

\* index of the else of the block that segs[1] opens; 0 when it has none
RECURSIVE FindElse(_, _, _)
FindElse(segs, i, depth) ==
    IF i > Len(segs) THEN 0
    ELSE IF segs[i].k \in {"if", "for"} THEN FindElse(segs, i + 1, depth + 1)
    ELSE IF segs[i].k \in {"endif", "endfor"}
         THEN IF depth = 0 THEN 0 ELSE FindElse(segs, i + 1, depth - 1)
    ELSE IF segs[i].k = "else" /\ depth = 0 THEN i
    ELSE FindElse(segs, i + 1, depth)

\* a name resolves to the context value; a name the context lacks is undefined
Lookup(env, name) == IF name \in DOMAIN env THEN env[name] ELSE VAbsent

Out(s) == [exc |-> "none", out |-> s, iters |-> 0]
Throw(e, msg) == [exc |-> e, out |-> msg, iters |-> 0]

\* output of a followed by output of b; the first exception ends the rendering
Then(a, b) ==
    IF a.exc # "none" THEN a
    ELSE IF b.exc # "none" THEN [b EXCEPT !.iters = a.iters + b.iters]
    ELSE [exc |-> "none", out |-> a.out \o b.out, iters |-> a.iters + b.iters]

Iterated(a) == [a EXCEPT !.iters = @ + 1]

\* {{ name }} with the default Undefined: an undefined name prints as ''
EvalVar_raw(env, name) ==
    IF Lookup(env, name).t = "absent" \/ Lookup(env, name).s = <<>>
    THEN Out(<<"{{", name, "}}">>)
    ELSE Out(ToStr(Lookup(env, name)))

EvalVar(env, name) == Out(ToStr(Lookup(env, name)))

\* {{ name.attr }}: an attribute of an undefined name raises UndefinedError, an
\* attribute a value does not have is itself undefined and prints as ''
EvalAttr(env, name) ==
    IF Lookup(env, name).t = "absent"
    THEN Throw("UndefinedError", <<"'", name, "' is undefined">>)
    ELSE Out(<<>>)

RECURSIVE Eval(_, _)
RECURSIVE Loop(_, _, _, _, _)

\* the body of {% for name in range(n) %}, once per element from i on
Loop(body, env, name, i, n) ==
    IF i >= n THEN Out(<<>>)
    ELSE Then(Iterated(Eval(body, (name :> Num(i)) @@ env)), Loop(body, env, name, i + 1, n))

\* template.render(**context) of a template that parsed
Eval(segs, env) ==
    IF segs = <<>> THEN Out(<<>>)
    ELSE LET h == Head(segs) IN
      CASE h.k = "data" -> Then(Out(h.s), Eval(Tail(segs), env))
        [] h.k = "var" -> Then(EvalVar(env, h.name), Eval(Tail(segs), env))
        [] h.k = "attr" -> Then(EvalAttr(env, h.name), Eval(Tail(segs), env))
        [] h.k \in {"if", "for"} ->
            LET j == FindEnd(segs, 2, 0)
                e == FindElse(segs, 2, 0)
                first == SubSeq(segs, 2, (IF e > 0 THEN e ELSE j) - 1)
                second == IF e > 0 THEN SubSeq(segs, e + 1, j - 1) ELSE <<>>
                rest == SubSeq(segs, j + 1, Len(segs))
                taken == IF h.k = "if"
                         THEN Eval(IF Truthy(Lookup(env, h.name)) THEN first ELSE second, env)
                         ELSE IF h.n = 0 THEN Eval(second, env)
                         ELSE Loop(first, env, h.name, 0, h.n)
            IN  Then(taken, Eval(rest, env))
        [] OTHER -> Out(<<>>)

\* a template_string is a str (its segments) or another JSON value
Template(segs) == [t |-> "str", segs |-> segs]
NoStrTemplate == [t |-> "int", segs |-> <<>>]

\* lines 90-96 of render: the try block and its two handlers
RenderEngine(tpl, ctx) ==
    IF tpl.t # "str"
    THEN [out |-> <<"Fehler", " beim Rendern: ", "Can't compile non template nodes">>,
          iters |-> 0]
    ELSE LET segs == Lex(tpl.segs)
             syn == SyntaxScan(segs, <<>>)
             r == Eval(segs, ctx)
         IN  IF ~syn.ok
             THEN [out |-> <<"Fehler", " beim Rendern: ">> \o syn.msg, iters |-> 0]
             ELSE IF r.exc = "none" THEN [out |-> r.out, iters |-> r.iters]
             ELSE IF r.exc = "UndefinedError"
             THEN [out |-> <<"Fehler", ": Unbekannter Platzhalter - ">> \o r.out,
                   iters |-> r.iters]
             ELSE [out |-> <<"Fehler", " beim Rendern: ">> \o r.out, iters |-> r.iters]

---------------------------------------------------------------------------
(* Inputs of render: the templates and contexts a request can carry *)

\* line 39 of DEFAULT_TEMPLATE
GreetingLine ==
    <<If("contact_person"), Data(<<"Sehr geehrte/r ">>), Var("contact_person"), Data(<<",">>),
      Else, Data(<<"Liebes ">>), Var("company"), Data(<<"-Recruiting-Team,">>), EndIf,
      Data(<<"\n", "\n">>)>>

\* DEFAULT_TEMPLATE, lines 27-48
DEFAULT_TEMPLATE ==
    <<Var("your_name"), Data(<<"\n">>), Var("your_address"), Data(<<"\n">>),
      Var("your_email"), Data(<<"\n">>), Var("your_phone"), Data(<<"\n", "\n">>),
      Var("company"), Data(<<"\n">>), Var("company_address"), Data(<<"\n", "\n">>),
      Var("date"), Data(<<"\n", "\n", "Betreff: ">>), Var("subject"), Data(<<"\n", "\n">>)>>
    \o GreetingLine \o
    <<Data(<<"Stellenausschreibung als ">>), Var("job_title"), Data(<<" gelesen", "\n">>),
      Var("your_name"), Data(<<"\n">>)>>

Templates ==
    { Template(DEFAULT_TEMPLATE),
      Template(<<Var("subject")>>),
      Template(<<Data(<<"Datum: ">>), Var("date"), Data(<<"\n">>), Var("company")>>),
      Template(<<Data(<<"Hallo ">>), Var("unknown_field"), Data(<<"!">>)>>),
      Template(<<Var("company"), If("unknown_field"), Data(<<"?">>), EndIf>>),
      Template(<<Attr("unknown_field", "name")>>),
      Template(<<Attr("company", "name"), Data(<<".">>)>>),
      Template(<<For("i", MaxRange), Data(<<"Zeile ">>), Var("i"), Data(<<"\n">>), EndFor>>),
      Template(<<If("company"), For("i", MaxRange), Var("job_title"), Else,
                 Data(<<"leer">>), EndFor, EndIf>>),
      Template(<<Data(<<"  ">>), If("job_title"), Data(<<"\n", "a">>), EndIf>>),
      Template(<<Tag("include"), Data(<<"x">>)>>),
      Template(<<Var("company"), Open>>),
      Template(<<If("company"), Data(<<"x">>)>>),
      Template(<<Data(<<"x">>), EndIf>>),
      NoStrTemplate }

SubjectValues == {VAbsent, VNone, Str(<<>>), Str(<<"Initiativbewerbung">>)}
JobTitleValues ==
    {VAbsent, VNone, Str(<<>>), Str(<<" ">>), Str(<<"Backend Engineer">>), Num(5)}
DateValues == {VAbsent, Str(<<>>), Str(<<"0", "5", ".", "0", "3", ".", "2", "0", "2", "4">>)}
CompanyValues == {VAbsent, Str(<<"ACME">>), Str(<<"{{", "x", "}}", " ", "{%", "y", "%}">>)}
\* the contact person and the five sender fields: all missing, or all given
SenderValues ==
    { [contact |-> VNone, other |-> VAbsent],
      [contact |-> Str(<<"Frau Berg">>), other |-> Str(<<"x">>)] }

MkContext(subject, job_title, date, company, contact, other) ==
    [k \in PLACEHOLDERS |->
        CASE k = "subject" -> subject
          [] k = "job_title" -> job_title
          [] k = "date" -> date
          [] k = "company" -> company
          [] k = "contact_person" -> contact
          [] OTHER -> other]

NoContext == MkContext(VAbsent, VAbsent, VAbsent, VAbsent, VAbsent, VAbsent)
NoCall == [valid |-> FALSE, tpl |-> NoStrTemplate, ctx |-> NoContext,
           pc |-> "idle", res |-> <<>>, day |-> 0]

---------------------------------------------------------------------------
(* The render call as a state machine *)

RenderInit ==
    /\ clock = 0
    /\ r_pc = "idle"
    /\ r_tpl = NoStrTemplate
    /\ r_in = NoContext
    /\ r_ctx = NoContext
    /\ r_res = <<>>
    /\ r_iters = 0
    /\ r_day = 0
    /\ r_prev = NoCall
    /\ r_calls = 0

\* the host clock reaches the next day
Tick ==
    /\ clock < MaxClock
    /\ clock' = clock + 1
    /\ UNCHANGED <<r_pc, r_tpl, r_in, r_ctx, r_res, r_iters, r_day, r_prev, r_calls>>
    /\ UNCHANGED <<pvars, fvars, dvars>>

\* a caller enters render(template_string, context)
RenderCall ==
    /\ r_pc = "idle"
    /\ r_calls < MaxCalls
    /\ \E tpl \in Templates, su \in SubjectValues, jt \in JobTitleValues, da \in DateValues,
          co \in CompanyValues, se \in SenderValues :
            /\ r_tpl' = tpl
            /\ r_in' = MkContext(su, jt, da, co, se.contact, se.other)
            /\ r_ctx' = MkContext(su, jt, da, co, se.contact, se.other)
    /\ r_pc' = "called"
    /\ r_calls' = r_calls + 1
    /\ r_res' = <<>>
    /\ r_iters' = 0
    /\ UNCHANGED <<clock, r_day, r_prev>>
    /\ UNCHANGED <<pvars, fvars, dvars>>

\* lines 77-88: the defaults are written into the caller's dict, or the call raises
RenderDefaultsStep ==
    /\ r_pc = "called"
    /\ LET d == RenderDefaults(r_ctx, Today)
       IN  /\ r_ctx' = d.ctx
           /\ r_pc' = IF d.exc = "none" THEN "defaulted" ELSE "raised"
           /\ r_res' = IF d.exc = "none" THEN <<>> ELSE <<d.exc>>
    /\ r_day' = clock
    /\ UNCHANGED <<clock, r_tpl, r_in, r_iters, r_prev, r_calls>>
    /\ UNCHANGED <<pvars, fvars, dvars>>

\* lines 90-96: the context is handed to the engine and a string is returned
RenderEngineStep ==
    /\ r_pc = "defaulted"
    /\ LET e == RenderEngine(r_tpl, r_ctx)
       IN  /\ r_res' = e.out
           /\ r_iters' = e.iters
    /\ r_pc' = "returned"
    /\ UNCHANGED <<clock, r_tpl, r_in, r_ctx, r_day, r_prev, r_calls>>
    /\ UNCHANGED <<pvars, fvars, dvars>>

ThisCall == [valid |-> TRUE, tpl |-> r_tpl, ctx |-> r_in, pc |-> r_pc, res |-> r_res,
             day |-> r_day]

\* the caller calls render again with the same template and an equal context
RenderAgain ==
    /\ r_pc \in {"returned", "raised"}
    /\ r_calls < MaxCalls
    /\ r_prev' = ThisCall
    /\ r_ctx' = r_in
    /\ r_pc' = "called"
    /\ r_calls' = r_calls + 1
    /\ r_res' = <<>>
    /\ r_iters' = 0
    /\ UNCHANGED <<clock, r_tpl, r_in, r_day>>
    /\ UNCHANGED <<pvars, fvars, dvars>>

\* the caller calls render again with the dict object the last call mutated
RenderAgainSameDict ==
    /\ r_pc \in {"returned", "raised"}
    /\ r_calls < MaxCalls
    /\ r_prev' = ThisCall
    /\ r_in' = r_ctx
    /\ r_pc' = "called"
    /\ r_calls' = r_calls + 1
    /\ r_res' = <<>>
    /\ r_iters' = 0
    /\ UNCHANGED <<clock, r_tpl, r_ctx, r_day>>
    /\ UNCHANGED <<pvars, fvars, dvars>>

RenderNext ==
    \/ Tick
    \/ RenderCall
    \/ RenderDefaultsStep
    \/ RenderEngineStep
    \/ RenderAgain
    \/ RenderAgainSameDict

---------------------------------------------------------------------------
(* Claims about TextGenerator.render *)

Segs(tpl) == {tpl.segs[i] : i \in 1..Len(tpl.segs)}

\* names a {% for %} of the template binds
LoopNames(tpl) == {g.name : g \in {h \in Segs(tpl) : h.k = "for"}}

\* the template references a name that is no recognized placeholder
RefsUnknown(tpl) ==
    /\ tpl.t = "str"
    /\ \E g \in Segs(tpl) :
          g.k \in {"var", "attr", "if"} /\ g.name \notin PLACEHOLDERS \cup LoopNames(tpl)

UnknownNames(tpl) ==
    {g.name : g \in {h \in Segs(tpl) :
        h.k \in {"var", "attr", "if"} /\ h.name \notin PLACEHOLDERS \cup LoopNames(tpl)}}

\* the string holds the symbols of part, adjacent and in order
Contains(str, part) ==
    \E i \in 0..(Len(str) - Len(part)) : SubSeq(str, i + 1, i + Len(part)) = part

StartsWith(str, part) == Len(str) >= Len(part) /\ SubSeq(str, 1, Len(part)) = part

\* C1: for every template that references a name outside the recognized
\* placeholders, the string render returns contains the error text
\* "Fehler: Unbekannter Platzhalter - " naming that placeholder (whether render
\* raises instead of returning is claim C2).
C1_UnknownPlaceholderReported ==
    (r_pc = "returned" /\ RefsUnknown(r_tpl)) =>
        /\ Contains(r_res, <<"Fehler", ": Unbekannter Platzhalter - ">>)
        /\ \E n \in UnknownNames(r_tpl) : n \in Range(r_res)

\* C2: no call of render ends in an exception that reaches the caller.
C2_RenderNeverRaises == r_pc # "raised"

\* the template is one for block over data and defined names
SimpleLoop(tpl) ==
    /\ tpl.t = "str"
    /\ Len(tpl.segs) >= 3
    /\ tpl.segs[1].k = "for"
    /\ tpl.segs[Len(tpl.segs)].k = "endfor"
    /\ \A i \in 2..(Len(tpl.segs) - 1) :
          \/ tpl.segs[i].k = "data"
          \/ tpl.segs[i].k = "var" /\ tpl.segs[i].name \in PLACEHOLDERS \cup {tpl.segs[1].name}

NoSubject(v) == v.t \in {"absent", "none"} \/ v = Str(<<>>)
\* the job title is present: a string with a character that is no whitespace
HasJobTitle(v) == v.t = "str" /\ \E i \in 1..Len(v.s) : v.s[i] \notin Whitespace
NoJobTitle(v) == v.t \in {"absent", "none"} \/ v = Str(<<>>)

\* C5: with the subject absent or empty, {{subject}} is replaced by
\* "Bewerbung als <job_title>" when the job title is present and by "Bewerbung"
\* when it is absent too; a non-empty subject is substituted unchanged.
C5_SubjectDefault ==
    (r_pc \in {"defaulted", "returned"}) =>
        /\ (NoSubject(r_in["subject"]) /\ HasJobTitle(r_in["job_title"])) =>
              r_ctx["subject"] = Str(<<"Bewerbung als ">> \o r_in["job_title"].s)
        /\ (NoSubject(r_in["subject"]) /\ NoJobTitle(r_in["job_title"])) =>
              r_ctx["subject"] = Str(<<"Bewerbung">>)
        /\ ~NoSubject(r_in["subject"]) => r_ctx["subject"] = r_in["subject"]
        /\ (r_pc = "returned" /\ r_tpl = Template(<<Var("subject")>>)) =>
              r_res = r_ctx["subject"].s

C5_Witness ==
    /\ r_pc = "returned"
    /\ r_tpl = Template(<<Var("subject")>>)
    /\ r_in["subject"] = Str(<<>>)
    /\ r_in["job_title"] = Str(<<"Backend Engineer">>)
    /\ r_res = <<"Bewerbung als ", "Backend Engineer">>

NoDate(v) == v.t \in {"absent", "none"} \/ v = Str(<<>>)

OnlyRecognized(tpl) ==
    /\ tpl.t = "str"
    /\ \A g \in Segs(tpl) :
          \/ g.k \in {"data", "else", "endif"}
          \/ g.k \in {"var", "if"} /\ g.name \in PLACEHOLDERS

NoDelimiter(str) == "{{" \notin Range(str) /\ "{%" \notin Range(str)

SameInputs == r_prev.valid /\ r_prev.tpl = r_tpl /\ r_prev.ctx = r_in

---------------------------------------------------------------------------
(* Letter layout engine (services/pdfgen.py): units, page geometry, fonts *)

\* 1 mm and 1 pt in the unit pt/127000 (reportlab: mm = 72/25.4 pt)
MM == 360000
PT == 127000

PAGE_HEIGHT == 297 * MM
SENDER_LINE_Y == 297 * MM - 45 * MM
\* 297 mm - 50.8 mm
ADDRESS_FIELD_TOP == 297 * MM - 508 * (MM \div 10)
DATE_Y == 297 * MM - 508 * (MM \div 10)
\* 297 mm - 103.4 mm
SUBJECT_Y == 297 * MM - 1034 * (MM \div 10)
TEXT_START_Y == 297 * MM - 115 * MM
PAGE_WIDTH == 210 * MM

FONT_SIZE == 11
FONT_SIZE_SMALL == 7
FONT_SIZE_SENDER == 10
LINE_HEIGHT == 14
PARAGRAPH_SPACING == 11
BULLET_INDENT == 8 * MM
BULLET_SPACING == 8

\* _register_fonts on a host without Avenir Next: the Helvetica family
font_name == "Helvetica"
font_name_bold == "Helvetica-Bold"
font_name_italic == "Helvetica-Oblique"
font_name_bold_italic == "Helvetica-BoldOblique"

_get_font_for_styles(styles) ==
    IF "bold" \in Range(styles) /\ "italic" \in Range(styles) THEN font_name_bold_italic
    ELSE IF "bold" \in Range(styles) THEN font_name_bold
    ELSE IF "italic" \in Range(styles) THEN font_name_italic
    ELSE font_name

\* glyph widths of Helvetica and Helvetica-Oblique, in 1/1000 of the font size
GlyphWidth(ch) ==
    CASE ch \in {" ", ",", ".", "f", "t", "I", "!", ":", "/"} -> 278
      [] ch \in {"i", "j", "l"} -> 222
      [] ch \in {"r", "-", "(", ")"} -> 333
      [] ch \in {"c", "k", "s", "v", "x", "y", "z", "J"} -> 500
      [] ch \in {"m", "M"} -> 833
      [] ch \in {"w", "C", "D", "H", "N", "R", "U"} -> 722
      [] ch \in {"A", "B", "E", "K", "P", "S", "V", "X", "Y"} -> 667
      [] ch \in {"F", "T", "Z"} -> 611
      [] ch \in {"G", "O", "Q"} -> 778
      [] ch = "W" -> 944
      [] ch = "*" -> 389
      [] ch = "bullet" -> 350
      [] OTHER -> 556

\* glyph widths of Helvetica-Bold and Helvetica-BoldOblique
GlyphWidthBold(ch) ==
    CASE ch \in {" ", ",", ".", "i", "j", "l", "I", "/"} -> 278
      [] ch \in {"f", "t", "-", "(", ")", "!", ":"} -> 333
      [] ch = "r" -> 389
      [] ch \in {"a", "c", "e", "k", "s", "v", "x", "y", "J", "0", "1", "2", "3", "4",
                 "5", "6", "7", "8", "9", "endash"} -> 556
      [] ch = "z" -> 500
      [] ch = "m" -> 889
      [] ch = "w" -> 778
      [] ch \in {"A", "B", "C", "D", "H", "K", "N", "R", "U"} -> 722
      [] ch \in {"E", "P", "S", "V", "X", "Y"} -> 667
      [] ch = "M" -> 833
      [] ch \in {"G", "O", "Q"} -> 778
      [] ch = "W" -> 944
      [] ch = "*" -> 389
      [] ch = "bullet" -> 350
      [] OTHER -> 611

RECURSIVE GlyphSum(_, _)
GlyphSum(text, font) ==
    IF text = <<>> THEN 0
    ELSE (IF font \in {font_name_bold, font_name_bold_italic}
          THEN GlyphWidthBold(Head(text)) ELSE GlyphWidth(Head(text)))
         + GlyphSum(Tail(text), font)

\* c.stringWidth(text, font, size)
stringWidth(text, font, size) == GlyphSum(text, font) * size * (PT \div 1000)

---------------------------------------------------------------------------
(* str methods the layout engine uses; the symbols "bullet" and "endash" are   *)
(* the characters U+2022 and U+2013                                        *)

FirstIndex(str, ch) ==
    IF \E i \in 1..Len(str) : str[i] = ch
    THEN CHOOSE i \in 1..Len(str) : str[i] = ch /\ \A j \in 1..(i - 1) : str[j] # ch
    ELSE 0

\* str.split(sep)
RECURSIVE Split(_, _)
Split(str, sep) ==
    LET i == FirstIndex(str, sep)
    IN  IF i = 0 THEN <<str>>
        ELSE <<SubSeq(str, 1, i - 1)>> \o Split(SubSeq(str, i + 1, Len(str)), sep)

\* str.split(sep, 1)
SplitOnce(str, sep) ==
    LET i == FirstIndex(str, sep)
    IN  IF i = 0 THEN <<str>>
        ELSE <<SubSeq(str, 1, i - 1), SubSeq(str, i + 1, Len(str))>>

\* index of the first whitespace of str, Len(str) + 1 when it has none
RECURSIVE WordEnd(_, _)
WordEnd(str, i) ==
    IF i > Len(str) \/ str[i] \in Whitespace THEN i ELSE WordEnd(str, i + 1)

\* str.split(): the words between runs of whitespace
RECURSIVE Words(_)
Words(str) ==
    LET t == LStrip(str)
        e == WordEnd(t, 1)
    IN  IF t = <<>> THEN <<>>
        ELSE <<SubSeq(t, 1, e - 1)>> \o Words(SubSeq(t, e, Len(t)))

\* ' '.join(words)
RECURSIVE Join(_)
Join(words) ==
    IF words = <<>> THEN <<>>
    ELSE IF Len(words) = 1 THEN words[1]
    ELSE words[1] \o <<" ">> \o Join(Tail(words))

UpperCase == <<"A", "B", "C", "D", "E", "F", "G", "H", "I", "J", "K", "L", "M",
               "N", "O", "P", "Q", "R", "S", "T", "U", "V", "W", "X", "Y", "Z">>
LowerCase == <<"a", "b", "c", "d", "e", "f", "g", "h", "i", "j", "k", "l", "m",
               "n", "o", "p", "q", "r", "s", "t", "u", "v", "w", "x", "y", "z">>

\* str.lower()
Lower(str) ==
    [i \in 1..Len(str) |->
        IF \E j \in 1..26 : UpperCase[j] = str[i]
        THEN LowerCase[CHOOSE j \in 1..26 : UpperCase[j] = str[i]]
        ELSE str[i]]

\* str.lstrip(chars)
RECURSIVE LStripChars(_, _)
LStripChars(str, chars) ==
    IF str # <<>> /\ Head(str) \in chars THEN LStripChars(Tail(str), chars) ELSE str

IsDigits(str) == str # <<>> /\ \A i \in 1..Len(str) : str[i] \in Range(DigitStr)

DigitValue(ch) == CHOOSE n \in 0..9 : DigitStr[n + 1] = ch

RECURSIVE NumberOf(_)
NumberOf(str) ==
    IF str = <<>> THEN 0 ELSE 10 * NumberOf(SubSeq(str, 1, Len(str) - 1)) + DigitValue(str[Len(str)])

\* datetime.strptime(date_str, '%Y-%m-%d'): the date, or ok = FALSE for ValueError
StrptimeYMD(str) ==
    LET parts == Split(str, "-")
        wellFormed ==
            /\ Len(parts) = 3
            /\ IsDigits(parts[1]) /\ Len(parts[1]) = 4
            /\ IsDigits(parts[2]) /\ Len(parts[2]) \in {1, 2}
            /\ IsDigits(parts[3]) /\ Len(parts[3]) \in {1, 2}
        y == NumberOf(parts[1])
        m == NumberOf(parts[2])
        d == NumberOf(parts[3])
    IN  IF wellFormed /\ y >= 1 /\ m \in 1..12 /\ d >= 1 /\ d <= DaysInMonth(m, y)
        THEN [ok |-> TRUE, date |-> [y |-> y, m |-> m, d |-> d]]
        ELSE [ok |-> FALSE, date |-> StartDate]

\* the loop of _wrap_text without the flush of the full line
RECURSIVE WrapWords_noFlush(_, _, _, _, _)
WrapWords_noFlush(words, current_line, lines, max_width, font) ==
    IF words = <<>>
    THEN IF current_line # <<>> THEN Append(lines, Join(current_line)) ELSE lines
    ELSE IF stringWidth(Join(Append(current_line, Head(words))), font, FONT_SIZE) <= max_width
         THEN WrapWords_noFlush(Tail(words), Append(current_line, Head(words)), lines,
                                max_width, font)
         ELSE WrapWords_noFlush(Tail(words), <<Head(words)>>, lines, max_width, font)

\* WrapWords that puts every word on a line of its own
RECURSIVE WrapWords_eachWord(_, _, _, _, _)
WrapWords_eachWord(words, current_line, lines, max_width, font) ==
    IF words = <<>> THEN lines
    ELSE WrapWords_eachWord(Tail(words), <<>>, Append(lines, Head(words)), max_width, font)

\* _wrap_text, lines 579-600: greedy packing of the words of text
RECURSIVE WrapWords(_, _, _, _, _)
WrapWords(words, current_line, lines, max_width, font) ==
    IF words = <<>>
    THEN IF current_line # <<>> THEN Append(lines, Join(current_line)) ELSE lines
    ELSE LET test_line == Join(Append(current_line, Head(words)))
         IN  IF stringWidth(test_line, font, FONT_SIZE) <= max_width
             THEN WrapWords(Tail(words), Append(current_line, Head(words)), lines,
                            max_width, font)
             ELSE WrapWords(Tail(words), <<Head(words)>>,
                            IF current_line # <<>> THEN Append(lines, Join(current_line))
                            ELSE lines,
                            max_width, font)

\* _wrap_text that never breaks the line
_wrap_text_noWrap(text, max_width, font) == <<Join(Words(text))>>

_wrap_text(text, max_width, font) ==
    LET lines == WrapWords(Words(text), <<>>, <<>>, max_width, font)
    IN  IF lines # <<>> THEN lines ELSE << <<>> >>

---------------------------------------------------------------------------
(* HTMLToTextConverter: html_content is the sequence of the start tags, end *)
(* tags and text runs that HTMLParser.feed hands to the handlers.           *)

StartTag(tag) == [k |-> "start", tag |-> tag, s |-> <<>>]
EndTag(tag) == [k |-> "end", tag |-> tag, s |-> <<>>]
Text(str) == [k |-> "data", tag |-> "", s |-> str]

\* the blocks of self.result; a block carries every key, the unused ones empty
TextBlock(content, styles) ==
    [type |-> "text", content |-> content, styles |-> styles, list_type |-> "none",
     items |-> <<>>]
ParagraphBreak ==
    [type |-> "paragraph_break", content |-> <<>>, styles |-> <<>>, list_type |-> "none",
     items |-> <<>>]
ListBlock(list_type, items) ==
    [type |-> "list", content |-> <<>>, styles |-> <<>>, list_type |-> list_type,
     items |-> items]

\* __init__, lines 23-31
NewConverter ==
    [result |-> <<>>, current_text |-> <<>>, styles |-> <<>>, in_list |-> FALSE,
     list_type |-> "none", list_items |-> <<>>, list_counter |-> 0]

\* _flush_text, lines 98-105
_flush_text(h) ==
    IF Strip(h.current_text) # <<>>
    THEN [h EXCEPT !.result = Append(@, TextBlock(Strip(h.current_text), h.styles)),
                   !.current_text = <<>>]
    ELSE [h EXCEPT !.current_text = <<>>]

\* handle_starttag whose ol branch keeps the counter of the items before
handle_starttag_noReset(h, tag) ==
    CASE tag \in {"b", "strong"} -> [h EXCEPT !.styles = Append(@, "bold")]
      [] tag \in {"i", "em"} -> [h EXCEPT !.styles = Append(@, "italic")]
      [] tag = "u" -> [h EXCEPT !.styles = Append(@, "underline")]
      [] tag = "ul" ->
            [_flush_text(h) EXCEPT !.in_list = TRUE, !.list_type = "ul", !.list_items = <<>>]
      [] tag = "ol" ->
            [_flush_text(h) EXCEPT !.in_list = TRUE, !.list_type = "ol", !.list_items = <<>>]
      [] tag = "li" -> [h EXCEPT !.current_text = <<>>]
      [] tag = "br" -> [h EXCEPT !.current_text = Append(@, "\n")]
      [] tag \in {"p", "div"} -> _flush_text(h)
      [] OTHER -> h

\* handle_starttag, lines 33-59
handle_starttag(h, tag) ==
    CASE tag \in {"b", "strong"} -> [h EXCEPT !.styles = Append(@, "bold")]
      [] tag \in {"i", "em"} -> [h EXCEPT !.styles = Append(@, "italic")]
      [] tag = "u" -> [h EXCEPT !.styles = Append(@, "underline")]
      [] tag = "ul" ->
            [_flush_text(h) EXCEPT !.in_list = TRUE, !.list_type = "ul", !.list_items = <<>>]
      [] tag = "ol" ->
            [_flush_text(h) EXCEPT !.in_list = TRUE, !.list_type = "ol", !.list_items = <<>>,
                                   !.list_counter = 0]
      [] tag = "li" -> [h EXCEPT !.current_text = <<>>]
      [] tag = "br" -> [h EXCEPT !.current_text = Append(@, "\n")]
      [] tag \in {"p", "div"} -> _flush_text(h)
      [] OTHER -> h

\* list.remove(x): the first occurrence goes
RemoveFirst(seq, x) ==
    LET i == FirstIndex(seq, x)
    IN  SubSeq(seq, 1, i - 1) \o SubSeq(seq, i + 1, Len(seq))

RECURSIVE Decimal(_)
Decimal(n) == IF n < 10 THEN <<Digit(n)>> ELSE Decimal(n \div 10) \o <<Digit(n % 10)>>

\* handle_endtag, lines 61-93
handle_endtag(h, tag) ==
    CASE tag \in {"b", "strong"} /\ "bold" \in Range(h.styles) ->
            [h EXCEPT !.styles = RemoveFirst(@, "bold")]
      [] tag \in {"i", "em"} /\ "italic" \in Range(h.styles) ->
            [h EXCEPT !.styles = RemoveFirst(@, "italic")]
      [] tag = "u" /\ "underline" \in Range(h.styles) ->
            [h EXCEPT !.styles = RemoveFirst(@, "underline")]
      [] tag = "li" ->
            IF h.in_list
            THEN [h EXCEPT
                    !.list_counter = @ + 1,
                    !.list_items = Append(@,
                        [prefix |-> IF h.list_type = "ul" THEN <<"bullet", " ">>
                                    ELSE Decimal(h.list_counter + 1) \o <<".", " ">>,
                         text |-> Strip(h.current_text),
                         styles |-> h.styles]),
                    !.current_text = <<>>]
            ELSE h
      [] tag \in {"ul", "ol"} ->
            [h EXCEPT
                !.result = IF h.list_items # <<>>
                           THEN Append(@, ListBlock(h.list_type, h.list_items)) ELSE @,
                !.in_list = FALSE, !.list_type = "none", !.list_items = <<>>]
      [] tag = "p" -> [_flush_text(h) EXCEPT !.result = Append(@, ParagraphBreak)]
      [] tag = "div" -> _flush_text(h)
      [] OTHER -> h

\* handle_data, lines 95-96
handle_data(h, data) == [h EXCEPT !.current_text = @ \o data]

\* html.parser.HTMLParser.CDATA_CONTENT_ELEMENTS
CDATA_CONTENT_ELEMENTS == {"script", "style"}

\* a token as it is written in html_content
Source(t) ==
    CASE t.k = "start" -> <<"<", t.tag, ">">>
      [] t.k = "end" -> <<"<", "/", t.tag, ">">>
      [] OTHER -> t.s

RECURSIVE SourceOf(_)
SourceOf(tokens) ==
    IF tokens = <<>> THEN <<>> ELSE Source(Head(tokens)) \o SourceOf(Tail(tokens))

\* the index of the first end tag of the element, 0 when there is none
ClosingIndex(tokens, tag) ==
    LET S == {i \in 1..Len(tokens) : tokens[i].k = "end" /\ tokens[i].tag = tag}
    IN  IF S = {} THEN 0 ELSE CHOOSE i \in S : \A j \in S : i <= j

\* HTMLParser.feed: every token goes to its handler, in order.  After the
\* start tag of a CDATA element the parser reads up to the element's end tag
\* as one run of text; without an end tag the rest stays in the parser's
\* buffer, and _parse_html_content never calls close().
RECURSIVE Feed(_, _)
Feed(h, tokens) ==
    IF tokens = <<>> THEN h
    ELSE LET t == Head(tokens)
             rest == Tail(tokens)
             j == ClosingIndex(rest, t.tag)
         IN  CASE t.k = "start" /\ t.tag \in CDATA_CONTENT_ELEMENTS ->
                    IF j = 0 THEN handle_starttag(h, t.tag)
                    ELSE Feed(handle_endtag(
                                  handle_data(handle_starttag(h, t.tag),
                                              SourceOf(SubSeq(rest, 1, j - 1))),
                                  t.tag),
                              SubSeq(rest, j + 1, Len(rest)))
               [] t.k = "start" -> Feed(handle_starttag(h, t.tag), rest)
               [] t.k = "end" -> Feed(handle_endtag(h, t.tag), rest)
               [] OTHER -> Feed(handle_data(h, t.s), rest)

\* get_result, lines 107-109
get_result(h) == _flush_text(h).result

\* _parse_html_content, lines 214-221
_parse_html_content(html_content) ==
    IF html_content = <<>> THEN <<>> ELSE get_result(Feed(NewConverter, html_content))

---------------------------------------------------------------------------
(* generate_pdf: the canvas of one call and the header routines.  g is the  *)
(* state of one call; cm is self.current_margins as the routine reads it.   *)

\* one drawing operation as the canvas received it; w is the length of a rule
Entry(op, el, blk, page, x, y, w, font, size, text) ==
    [op |-> op, el |-> el, blk |-> blk, page |-> page, x |-> x, y |-> y, w |-> w,
     font |-> font, size |-> size, text |-> text]

setFont(g, font, size) == [g EXCEPT !.font = font, !.size = size]

drawString(g, el, x, y, text) ==
    [g EXCEPT !.log = Append(@, Entry("drawString", el, g.i, g.page, x, y, 0, g.font,
                                      g.size, text))]

drawRightString(g, el, x, y, text) ==
    [g EXCEPT !.log = Append(@, Entry("drawRightString", el, g.i, g.page, x, y, 0, g.font,
                                      g.size, text))]

\* c.line(x, y, x + w, y)
line(g, el, x, y, w) ==
    [g EXCEPT !.log = Append(@, Entry("line", el, g.i, g.page, x, y, w, g.font, g.size,
                                      <<>>))]

\* a for loop that draws one string per line, dy apart, downwards from y
RECURSIVE DrawLines(_, _, _, _, _, _, _)
DrawLines(g, right, el, x, y, lines, dy) ==
    IF lines = <<>> THEN g
    ELSE DrawLines(IF right THEN drawRightString(g, el, x, y, Head(lines))
                   ELSE drawString(g, el, x, y, Head(lines)),
                   right, el, x, y - dy, Tail(lines), dy)

\* [line.strip() for line in text.split('\n')]
StrippedLines(text) ==
    LET ls == Split(text, "\n") IN [i \in 1..Len(ls) |-> Strip(ls[i])]

NonBlank(str) == str # <<>>

\* [line.strip() for line in text.split('\n') if line.strip()]
NonBlankLines(text) == SelectSeq(StrippedLines(text), NonBlank)

\* ' · '.join(parts)
RECURSIVE JoinDot(_)
JoinDot(parts) ==
    IF parts = <<>> THEN <<>>
    ELSE IF Len(parts) = 1 THEN parts[1]
    ELSE parts[1] \o <<" ", "middot", " ">> \o JoinDot(Tail(parts))

\* lines 280-307
_draw_sender_block(g, cm) ==
    LET d == g.data
        x == PAGE_WIDTH - cm.right
        y0 == 297 * MM - cm.top
        g0 == setFont(g, font_name, FONT_SIZE_SENDER)
        g1 == IF d.your_name # <<>> THEN drawRightString(g0, "sender", x, y0, d.your_name)
              ELSE g0
        y1 == IF d.your_name # <<>> THEN y0 - 12 * PT ELSE y0
        addr == IF d.your_address # <<>> THEN StrippedLines(d.your_address) ELSE <<>>
        g2 == DrawLines(g1, TRUE, "sender", x, y1, addr, 12 * PT)
        y2 == y1 - Len(addr) * 12 * PT - 6 * PT
        g3 == IF d.your_phone # <<>>
              THEN drawRightString(g2, "sender", x, y2, <<"Tel.: ">> \o d.your_phone)
              ELSE g2
        y3 == IF d.your_phone # <<>> THEN y2 - 12 * PT ELSE y2
    IN  IF d.your_email # <<>> THEN drawRightString(g3, "sender", x, y3, d.your_email)
        ELSE g3

\* lines 309-327
_draw_sender_line(g, cm) ==
    LET d == g.data
        sender_parts ==
            (IF d.your_name # <<>> THEN <<d.your_name>> ELSE <<>>)
            \o (IF d.your_address # <<>> THEN NonBlankLines(d.your_address) ELSE <<>>)
        g0 == setFont(g, font_name, FONT_SIZE_SMALL)
    IN  IF sender_parts # <<>>
        THEN line(drawString(g0, "senderline", cm.left, SENDER_LINE_Y, JoinDot(sender_parts)),
                  "senderline", cm.left, SENDER_LINE_Y - 2 * PT, 85 * MM)
        ELSE g

\* lines 329-351
_draw_recipient_address(g, cm) ==
    LET d == g.data
        lines ==
            (IF d.company # <<>> THEN <<d.company>> ELSE <<>>)
            \o (IF d.contact_person # <<>> THEN <<d.contact_person>> ELSE <<>>)
            \o (IF d.company_address # <<>> THEN NonBlankLines(d.company_address) ELSE <<>>)
    IN  DrawLines(setFont(g, font_name, FONT_SIZE), FALSE, "address", cm.left,
                  ADDRESS_FIELD_TOP - 15 * PT, lines, LINE_HEIGHT * PT)

\* the date string shown as it was given
DateString_raw(date, today) == IF date.t = "absent" THEN StrftimeDMY(today) ELSE date.s

\* lines 355-363: the date string the date line shows
DateString(date, today) ==
    LET date_str == IF date.t = "absent" THEN StrftimeDMY(today) ELSE date.s
        parsed == StrptimeYMD(date_str)
    IN  IF date_str # <<>> /\ "-" \in Range(date_str) /\ parsed.ok
        THEN StrftimeDMY(parsed.date)
        ELSE date_str

\* lines 365-374: the place named on the last line of the sender's address
Location(your_address) ==
    LET addr_lines == IF your_address # <<>> THEN NonBlankLines(your_address) ELSE <<>>
        parts == IF addr_lines # <<>> THEN SplitOnce(addr_lines[Len(addr_lines)], " ")
                 ELSE <<>>
    IN  IF Len(parts) > 1 THEN parts[2] ELSE <<"Flensburg">>

\* lines 353-379
_draw_date(g, cm, today) ==
    drawRightString(setFont(g, font_name, FONT_SIZE), "date", PAGE_WIDTH - cm.right, DATE_Y,
                    Location(g.data.your_address) \o <<", den ">>
                        \o DateString(g.data.date, today))

\* lines 383-385
SubjectOf(d) ==
    IF d.subject = <<>> /\ d.job_title # <<>> THEN <<"Bewerbung als ">> \o d.job_title
    ELSE d.subject

\* lines 381-389
_draw_subject(g, cm) ==
    IF SubjectOf(g.data) # <<>>
    THEN drawString(setFont(g, font_name_bold, FONT_SIZE), "subject", cm.left, SUBJECT_Y,
                    SubjectOf(g.data))
    ELSE g

---------------------------------------------------------------------------
(* generate_pdf: the body.  tw is self.current_text_width as the step reads *)
(* it; g.x and g.y are the locals x and y of the body routine.              *)

\* the cursor after a page break: lines 426, 463 and 573
PageTop_textStart(cm) == TEXT_START_Y

PageTop(cm) == 297 * MM - cm.top

\* c.showPage(); c.setFont(font, FONT_SIZE); y = the top of the new page
BreakPage_repeatDate(g, cm, font) ==
    LET top == PageTop(cm)
        g1 == [g EXCEPT
                !.page = @ + 1,
                !.y = top,
                !.log = Append(@, Entry("showPage", "break", g.i, g.page + 1, g.x, top, 0,
                                        font, FONT_SIZE, <<>>))]
    IN  setFont(drawRightString(g1, "date", PAGE_WIDTH - cm.right, DATE_Y, <<>>),
                font, FONT_SIZE)

BreakPage(g, cm, font) ==
    LET top == PageTop(cm)
    IN  [g EXCEPT
            !.page = @ + 1,
            !.y = top,
            !.font = font,
            !.size = FONT_SIZE,
            !.log = Append(@, Entry("showPage", "break", g.i, g.page + 1, g.x, top, 0,
                                    font, FONT_SIZE, <<>>))]

\* if y < self.current_margins['bottom']: break the page
BreakIfBelow(g, cm, font) == IF g.y < cm.bottom THEN BreakPage(g, cm, font) ELSE g

startswith(str, prefix) ==
    Len(str) >= Len(prefix) /\ SubSeq(str, 1, Len(prefix)) = prefix

\* line 482
IsGreeting(line_lower) ==
    \/ startswith(line_lower, <<"s", "e", "h", "r", " ", "g", "e", "e", "h", "r", "t", "e">>)
    \/ startswith(line_lower, <<"l", "i", "e", "b", "e", "s">>)
    \/ startswith(line_lower, <<"l", "i", "e", "b", "e", " ">>)

\* text_start_idx without the search for the greeting
text_start_idx_noSearch(lines) == 1

\* text_start_idx that points behind the last line when no line is a greeting
text_start_idx_dropAll(lines) ==
    IF \E i \in 1..Len(lines) : IsGreeting(Strip(Lower(lines[i])))
    THEN CHOOSE i \in 1..Len(lines) :
            /\ IsGreeting(Strip(Lower(lines[i])))
            /\ \A j \in 1..(i - 1) : ~IsGreeting(Strip(Lower(lines[j])))
    ELSE Len(lines) + 1

\* lines 479-484, as a 1-based index: the first greeting line, else the first line
text_start_idx(lines) ==
    IF \E i \in 1..Len(lines) : IsGreeting(Strip(Lower(lines[i])))
    THEN CHOOSE i \in 1..Len(lines) :
            /\ IsGreeting(Strip(Lower(lines[i])))
            /\ \A j \in 1..(i - 1) : ~IsGreeting(Strip(Lower(lines[j])))
    ELSE 1

BulletChars == {"bullet", "-", "endash", "*"}

\* line 514
is_bullet(str) == str # <<>> /\ Head(str) \in BulletChars

\* a bullet line drawn without the bold label: the whole text as one wrapped block
PlainBullet_noLabel(g, str, tw) ==
    LET y0 == IF ~g.in_bullet_list /\ ~g.previous_was_bullet THEN g.y - 6 * PT ELSE g.y
        bullet_text == Strip(LStripChars(str, BulletChars \cup {" "}))
        g1 == drawString(setFont(g, font_name, FONT_SIZE), "bullet", g.x + 5 * MM, y0,
                         <<"bullet">>)
        wrapped_lines == _wrap_text(bullet_text, tw - BULLET_INDENT, font_name)
    IN  [DrawLines(g1, FALSE, "body", g.x + BULLET_INDENT, y0, wrapped_lines,
                   LINE_HEIGHT * PT)
         EXCEPT !.y = y0 - Len(wrapped_lines) * LINE_HEIGHT * PT - BULLET_SPACING * PT,
                !.in_bullet_list = TRUE, !.previous_was_bullet = TRUE]

\* lines 516-556: one bullet line of the plain-text body
PlainBullet(g, str, tw) ==
    LET y0 == IF ~g.in_bullet_list /\ ~g.previous_was_bullet THEN g.y - 6 * PT ELSE g.y
        bullet_text == Strip(LStripChars(str, BulletChars \cup {" "}))
        g1 == drawString(setFont(g, font_name, FONT_SIZE), "bullet", g.x + 5 * MM, y0,
                         <<"bullet">>)
        text_x == g.x + BULLET_INDENT
        text_width == tw - BULLET_INDENT
        parts == SplitOnce(bullet_text, "(")
        bold_part == Strip(parts[1])
        rest_part == IF Len(parts) > 1 THEN <<"(">> \o parts[2] ELSE <<>>
        g2 == drawString(setFont(g1, font_name_bold, FONT_SIZE), "body", text_x, y0,
                         bold_part)
        rest_lines == IF rest_part # <<>> THEN _wrap_text(rest_part, text_width, font_name)
                      ELSE <<>>
        g3 == IF rest_part # <<>>
              THEN DrawLines(setFont(g2, font_name, FONT_SIZE), FALSE, "body", text_x,
                             y0 - LINE_HEIGHT * PT, rest_lines, LINE_HEIGHT * PT)
              ELSE g2
        wrapped_lines == _wrap_text(bullet_text, text_width, font_name)
        g4 == DrawLines(g1, FALSE, "body", text_x, y0, wrapped_lines, LINE_HEIGHT * PT)
    IN  IF "(" \in Range(bullet_text)
        THEN [g3 EXCEPT
                !.y = y0 - (1 + Len(rest_lines)) * LINE_HEIGHT * PT - BULLET_SPACING * PT,
                !.in_bullet_list = TRUE, !.previous_was_bullet = TRUE]
        ELSE [g4 EXCEPT
                !.y = y0 - Len(wrapped_lines) * LINE_HEIGHT * PT - BULLET_SPACING * PT,
                !.in_bullet_list = TRUE, !.previous_was_bullet = TRUE]

\* lines 558-567: one prose line of the plain-text body
PlainProse(g, str, tw) ==
    LET wrapped_lines == _wrap_text(str, tw, font_name)
        g1 == DrawLines(setFont(g, font_name, FONT_SIZE), FALSE, "body", g.x, g.y,
                        wrapped_lines, LINE_HEIGHT * PT)
    IN  [g1 EXCEPT !.y = g.y - Len(wrapped_lines) * LINE_HEIGHT * PT,
                   !.in_bullet_list = FALSE, !.previous_was_bullet = FALSE]

\* lines 499-575: one iteration of the while loop over relevant_lines
PlainLineStep(g, cm, tw) ==
    LET str == Strip(g.lines[g.i])
    IN  IF str = <<>>
        THEN [g EXCEPT !.y = @ - PARAGRAPH_SPACING * PT, !.in_bullet_list = FALSE,
                       !.previous_was_bullet = FALSE, !.i = @ + 1]
        ELSE [BreakIfBelow(IF is_bullet(str) THEN PlainBullet(g, str, tw)
                           ELSE PlainProse(g, str, tw),
                           cm, font_name)
              EXCEPT !.i = @ + 1]

\* lines 412-426: the wrapped lines of one text block, a break check after each
RECURSIVE RichLines(_, _, _, _, _)
RichLines(g, lines, font, underline, cm) ==
    IF lines = <<>> THEN g
    ELSE LET g1 == IF underline
                   THEN line(g, "rule", g.x, g.y - 2 * PT,
                             stringWidth(Head(lines), font, FONT_SIZE))
                   ELSE g
             g2 == [drawString(g1, "body", g.x, g.y, Head(lines))
                    EXCEPT !.y = @ - LINE_HEIGHT * PT]
         IN  RichLines(BreakIfBelow(g2, cm, font), Tail(lines), font, underline, cm)

\* lines 434-463: the items of one list block, a break check after each item
RECURSIVE RichItems(_, _, _, _)
RichItems(g, items, cm, tw) ==
    IF items = <<>> THEN g
    ELSE LET item == Head(items)
             font == _get_font_for_styles(item.styles)
             g1 == drawString(setFont(g, font_name, FONT_SIZE), "bullet", g.x + 5 * MM, g.y,
                              Strip(item.prefix))
             wrapped_lines == _wrap_text(item.text, tw - BULLET_INDENT, font)
             g2 == DrawLines(setFont(g1, font, FONT_SIZE), FALSE, "body",
                             g.x + BULLET_INDENT, g.y, wrapped_lines, LINE_HEIGHT * PT)
             g3 == [g2 EXCEPT !.y = @ - Len(wrapped_lines) * LINE_HEIGHT * PT
                                      - (BULLET_SPACING * PT) \div 2]
         IN  RichItems(BreakIfBelow(g3, cm, font), Tail(items), cm, tw)

\* lines 403-465: one iteration of the for loop over the parsed blocks
RichBlockStep(g, cm, tw) ==
    LET block == g.blocks[g.i]
        font == _get_font_for_styles(block.styles)
        drawn ==
            CASE block.type = "text" ->
                    RichLines(setFont(g, font, FONT_SIZE),
                              _wrap_text(block.content, tw, font), font,
                              "underline" \in Range(block.styles), cm)
              [] block.type = "paragraph_break" ->
                    [g EXCEPT !.y = @ - PARAGRAPH_SPACING * PT]
              [] OTHER ->
                    [RichItems([g EXCEPT !.y = @ - 6 * PT], block.items, cm, tw)
                     EXCEPT !.y = @ - 6 * PT]
    IN  [drawn EXCEPT !.i = @ + 1]

\* EnterBodyStep without the early return of lines 472-473
EnterBodyStep_noEarlyReturn(g, cm) ==
    LET lines == Split(g.data.body_text, "\n")
        relevant_lines == SubSeq(lines, text_start_idx(lines), Len(lines))
        parsed == _parse_html_content(g.data.html_content)
    IN  IF g.data.html_content # <<>>
        THEN [g EXCEPT !.blocks = parsed, !.y = TEXT_START_Y, !.x = cm.left, !.i = 1,
                       !.pc = IF parsed = <<>> THEN "save" ELSE "rich"]
        ELSE [setFont(g, font_name, FONT_SIZE) EXCEPT
                !.lines = relevant_lines, !.y = TEXT_START_Y, !.x = cm.left, !.i = 1,
                !.in_bullet_list = FALSE, !.previous_was_bullet = FALSE, !.pc = "plain"]

\* EnterBodyStep that starts the body at the top margin instead of TEXT_START_Y
EnterBodyStep_atPageTop(g, cm) ==
    LET lines == Split(g.data.body_text, "\n")
        relevant_lines == SubSeq(lines, text_start_idx(lines), Len(lines))
        parsed == _parse_html_content(g.data.html_content)
    IN  IF g.data.html_content # <<>>
        THEN [g EXCEPT !.blocks = parsed, !.y = PageTop(cm), !.x = cm.left, !.i = 1,
                       !.pc = IF parsed = <<>> THEN "save" ELSE "rich"]
        ELSE IF g.data.body_text = <<>>
        THEN [g EXCEPT !.pc = "save"]
        ELSE [setFont(g, font_name, FONT_SIZE) EXCEPT
                !.lines = relevant_lines, !.y = PageTop(cm), !.x = cm.left, !.i = 1,
                !.in_bullet_list = FALSE, !.previous_was_bullet = FALSE, !.pc = "plain"]

\* lines 271-274, 393-401 and 471-497: the body routine is entered
EnterBodyStep(g, cm) ==
    LET lines == Split(g.data.body_text, "\n")
        relevant_lines == SubSeq(lines, text_start_idx(lines), Len(lines))
        parsed == _parse_html_content(g.data.html_content)
    IN  IF g.data.html_content # <<>>
        THEN [g EXCEPT !.blocks = parsed, !.y = TEXT_START_Y, !.x = cm.left, !.i = 1,
                       !.pc = IF parsed = <<>> THEN "save" ELSE "rich"]
        ELSE IF g.data.body_text = <<>>
        THEN [g EXCEPT !.pc = "save"]
        ELSE [setFont(g, font_name, FONT_SIZE) EXCEPT
                !.lines = relevant_lines, !.y = TEXT_START_Y, !.x = cm.left, !.i = 1,
                !.in_bullet_list = FALSE, !.previous_was_bullet = FALSE, !.pc = "plain"]

---------------------------------------------------------------------------
(* The requests of the model: letter data as api_preview_pdf and            *)
(* api_export_pdf hand it to generate_pdf (app.py builds every key, the     *)
(* missing ones as '', and passes the margins dict through unvalidated)     *)

\* the longest generated body has this many repeated lines or paragraphs
MaxBodyLines == 3
\* the lines of the body that fills page 1 under the default margins and goes on
FullPageLines == 33

RECURSIVE Repeat(_, _)
Repeat(str, n) == IF n = 0 THEN <<>> ELSE str \o Repeat(str, n - 1)

NoHeader ==
    [your_name |-> <<>>, your_address |-> <<>>, your_email |-> <<>>, your_phone |-> <<>>,
     company |-> <<>>, company_address |-> <<>>, contact_person |-> <<>>,
     date |-> Str(<<>>), subject |-> <<>>, job_title |-> <<>>]

Headers ==
    { NoHeader,
      [your_name |-> <<"Max Muster">>,
       your_address |-> <<"Weg 1", "\n", "24937", " ", "Kiel">>,
       your_email |-> <<"m@x.de">>, your_phone |-> <<"0461">>,
       company |-> <<"ACME">>, company_address |-> <<"Hof 2", "\n", "\n", "1000 Bern">>,
       contact_person |-> <<"Frau Berg">>,
       date |-> Str(<<"2", "0", "2", "6", "-", "1", "1", "-", "3", "0">>),
       subject |-> <<"Bewerbung">>, job_title |-> <<"Koch">>],
      [NoHeader EXCEPT !.your_name = <<"Max Muster">>, !.your_address = <<"Kiel">>,
                       !.date = Str(<<"3", "0", ".", "1", "1", ".", "2", "0", "2", "6">>),
                       !.job_title = <<"Koch">>],
      [NoHeader EXCEPT !.company = <<"ACME">>, !.date = VAbsent,
                       !.subject = <<"Bewerbung">>],
      [NoHeader EXCEPT !.date = Str(<<"2", "0", "2", "6", "-", "1", "3", "-", "4", "0">>)],
      [NoHeader EXCEPT !.date = Str(<<"2", "0", "2", "6", "-", "3", "-", "5", "T", "9">>),
                       !.your_address = <<"24937", " ", "Kiel">>] }

\* the margins dict of the request, in mm; a missing key takes the default
NoMargins == [k \in {} |-> 0]

MarginDicts ==
    { NoMargins,
      [k \in {"bottom"} |-> 180],
      [k \in {"top", "bottom"} |-> IF k = "top" THEN 120 ELSE 170],
      [k \in {"top", "bottom", "left", "right"} |->
          CASE k = "top" -> 60 [] k = "bottom" -> 160 [] OTHER -> 100],
      [k \in {"left", "right"} |-> IF k = "left" THEN 40 ELSE 30] }

Greeting == <<"L", "i", "e", "b", "e", " ", "A", ",">>

\* a paragraph of two words that fill two lines of the default text width
LongLine == Repeat(<<"W">>, 30) \o <<" ">> \o Repeat(<<"W">>, 30)

PlainBodies ==
    { <<>>,
      Greeting \o <<"\n", "\n", "a", "b", " ", "c", "d", "\n", "e", "f">>,
      <<"F", "i", "r", "m", "a", " ", "X", "\n">> \o Greeting \o <<"\n", "a", "b">>,
      <<"a", "b", "\n", "c", "d">>,
      Greeting \o <<"\n", "-", " ", "L", "e", "a", "d", " ", "(", "5", " ", "y", ")", "\n", "-",
      " ", "c", "d", "\n", "e", "f", "\n", "*", " ", "g", "h">>,
      Greeting \o <<"\n", "a", "b", " ", "c", "d", " ", "e", "f", " ", "g", "h", " ", "i", "j",
      " ", "k", "l">> }
    \cup { Greeting \o Repeat(<<"\n", "a", "b", " ", "c", "d">>, n) : n \in 1..MaxBodyLines }
    \cup { Greeting \o Repeat(<<"\n", "a", "b">>, FullPageLines - 1) }
    \cup { Greeting \o <<"\n", "bullet", " ", "a", "(", "b", " ", "(", "c", "\n", "endash", " ",
                         "d", " ", "e", "\n", "-", "(", "f", ")">> }
    \cup { Greeting \o Repeat(<<"\n", "a", "b">>, FullPageLines - 3) \o <<"\n">> \o LongLine }

Para(str) == <<StartTag("p"), Text(str), EndTag("p")>>
Item(str) == <<StartTag("li"), Text(str), EndTag("li")>>

HtmlBodies ==
    { Para(<<"a", "b", " ", "c", "d">>) \o Para(<<"e", "f">>),
      Para(<<"e", "f">>) \o <<StartTag("ul")>> \o Item(<<"c", "d">>) \o Item(<<"g", "h">>) \o <<EndTag("ul")>>
          \o Para(<<"i", "j">>),
      <<StartTag("u")>> \o Para(<<"a", "b", " ", "c", "d", " ", "e", "f", " ", "g", "h">>) \o <<EndTag("u")>>,
      <<StartTag("b")>> \o Para(<<"e", "f">>) \o <<EndTag("b"), StartTag("ol")>> \o Item(<<"c", "d">>)
          \o <<EndTag("ol")>>,
      <<StartTag("div"), Text(<<"a", "b">>), EndTag("div"), StartTag("div"), Text(<<"c", "d">>),
        EndTag("div")>>,
      <<StartTag("span"), EndTag("span")>>,
      <<StartTag("u"), StartTag("ul")>> \o Item(<<"c", "d">>) \o <<EndTag("ul"), EndTag("u")>> }
    \cup { Repeat(Para(<<"a", "b", " ", "c", "d", " ", "e", "f", " ", "g", "h">>), n) : n \in 1..MaxBodyLines }

MkData(header, margins, body_text, html_content) ==
    [your_name |-> header.your_name, your_address |-> header.your_address,
     your_email |-> header.your_email, your_phone |-> header.your_phone,
     company |-> header.company, company_address |-> header.company_address,
     contact_person |-> header.contact_person, date |-> header.date,
     subject |-> header.subject, job_title |-> header.job_title,
     body_text |-> body_text, html_content |-> html_content, margins |-> margins]

PdfInputs ==
    { MkData(h, m, b, <<>>) : h \in Headers, m \in MarginDicts, b \in PlainBodies }
    \cup { MkData(h, m, <<>>, b) : h \in Headers, m \in MarginDicts, b \in HtmlBodies }

\* two requests that differ in their margins, for the interleaved calls
ConcInputs ==
    { MkData([NoHeader EXCEPT !.subject = <<"Bewerbung">>],
             [k \in {"left", "right"} |-> IF k = "left" THEN 40 ELSE 30],
             Greeting \o <<"\n", "a", "b">>, <<>>),
      MkData([NoHeader EXCEPT !.subject = <<"Bewerbung">>], NoMargins, <<>>,
             Para(<<"a", "b", " ", "c", "d">>)) }

---------------------------------------------------------------------------
(* generate_pdf as a state machine: call p runs on the shared pdf_generator *)

Calls == {1, 2}

\* a call that has not started: a fresh canvas (Helvetica 12, page 1)
NewCall ==
    [pc |-> "idle", data |-> MkData(NoHeader, NoMargins, <<>>, <<>>),
     font |-> "Helvetica", size |-> 12, page |-> 1, log |-> <<>>, x |-> 0, y |-> 0,
     i |-> 0, lines |-> <<>>, blocks |-> <<>>, in_bullet_list |-> FALSE,
     previous_was_bullet |-> FALSE, pages |-> 0]

\* before the first call the generator has neither attribute
Unset == [top |-> 0, bottom |-> 0, left |-> 0, right |-> 0]

PdfInit ==
    /\ gen = [p \in Calls |-> NewCall]
    /\ current_margins = Unset
    /\ current_text_width = 0

\* margins.get(key, default) * mm
MarginGet(margins, key, default) ==
    (IF key \in DOMAIN margins THEN margins[key] ELSE default) * MM

\* the dict of lines 244-249
MarginsOf(margins) ==
    [top |-> MarginGet(margins, "top", 27), bottom |-> MarginGet(margins, "bottom", 25),
     left |-> MarginGet(margins, "left", 25), right |-> MarginGet(margins, "right", 20)]

\* one request at a time: the export or preview handler calls generate_pdf(data)
PdfCall ==
    /\ gen[1].pc \in {"idle", "done"}
    /\ \E d \in PdfInputs : gen' = [gen EXCEPT ![1] = [NewCall EXCEPT !.data = d,
                                                                   !.pc = "margins"]]
    /\ UNCHANGED <<current_margins, current_text_width>>
    /\ UNCHANGED <<rvars, fvars, dvars>>

\* two requests are served by two threads of the one process
ConcCall(p) ==
    /\ gen[p].pc = "idle"
    /\ \E d \in ConcInputs : gen' = [gen EXCEPT ![p] = [NewCall EXCEPT !.data = d,
                                                                     !.pc = "margins"]]
    /\ UNCHANGED <<current_margins, current_text_width>>
    /\ UNCHANGED <<rvars, fvars, dvars>>

\* lines 243-249
SetMargins(p) ==
    /\ gen[p].pc = "margins"
    /\ current_margins' = MarginsOf(gen[p].data.margins)
    /\ gen' = [gen EXCEPT ![p].pc = "width"]
    /\ UNCHANGED current_text_width
    /\ UNCHANGED <<rvars, fvars, dvars>>

\* line 250
SetTextWidth(p) ==
    /\ gen[p].pc = "width"
    /\ current_text_width' = PAGE_WIDTH - current_margins.left - current_margins.right
    /\ gen' = [gen EXCEPT ![p].pc = "sender"]
    /\ UNCHANGED current_margins
    /\ UNCHANGED <<rvars, fvars, dvars>>

\* line 256
DrawSenderBlock(p) ==
    /\ gen[p].pc = "sender"
    /\ gen' = [gen EXCEPT ![p] = [_draw_sender_block(gen[p], current_margins)
                                  EXCEPT !.pc = "senderline"]]
    /\ UNCHANGED <<current_margins, current_text_width>>
    /\ UNCHANGED <<rvars, fvars, dvars>>

\* line 259
DrawSenderLine(p) ==
    /\ gen[p].pc = "senderline"
    /\ gen' = [gen EXCEPT ![p] = [_draw_sender_line(gen[p], current_margins)
                                  EXCEPT !.pc = "address"]]
    /\ UNCHANGED <<current_margins, current_text_width>>
    /\ UNCHANGED <<rvars, fvars, dvars>>

\* line 262
DrawRecipientAddress(p) ==
    /\ gen[p].pc = "address"
    /\ gen' = [gen EXCEPT ![p] = [_draw_recipient_address(gen[p], current_margins)
                                  EXCEPT !.pc = "date"]]
    /\ UNCHANGED <<current_margins, current_text_width>>
    /\ UNCHANGED <<rvars, fvars, dvars>>

\* line 265
DrawDate(p) ==
    /\ gen[p].pc = "date"
    /\ gen' = [gen EXCEPT ![p] = [_draw_date(gen[p], current_margins, Today)
                                  EXCEPT !.pc = "subject"]]
    /\ UNCHANGED <<current_margins, current_text_width>>
    /\ UNCHANGED <<rvars, fvars, dvars>>

\* line 268
DrawSubject(p) ==
    /\ gen[p].pc = "subject"
    /\ gen' = [gen EXCEPT ![p] = [_draw_subject(gen[p], current_margins)
                                  EXCEPT !.pc = "body"]]
    /\ UNCHANGED <<current_margins, current_text_width>>
    /\ UNCHANGED <<rvars, fvars, dvars>>

\* lines 271-274 up to the first iteration of the body loop
EnterBody(p) ==
    /\ gen[p].pc = "body"
    /\ gen' = [gen EXCEPT ![p] = EnterBodyStep(gen[p], current_margins)]
    /\ UNCHANGED <<current_margins, current_text_width>>
    /\ UNCHANGED <<rvars, fvars, dvars>>

\* one iteration of the while loop of _draw_body_text
PlainLine(p) ==
    /\ gen[p].pc = "plain"
    /\ LET g == PlainLineStep(gen[p], current_margins, current_text_width)
       IN  gen' = [gen EXCEPT ![p] = [g EXCEPT !.pc = IF g.i > Len(g.lines) THEN "save"
                                                      ELSE "plain"]]
    /\ UNCHANGED <<current_margins, current_text_width>>
    /\ UNCHANGED <<rvars, fvars, dvars>>

\* one iteration of the for loop of _draw_rich_body_text
RichBlock(p) ==
    /\ gen[p].pc = "rich"
    /\ LET g == RichBlockStep(gen[p], current_margins, current_text_width)
       IN  gen' = [gen EXCEPT ![p] = [g EXCEPT !.pc = IF g.i > Len(g.blocks) THEN "save"
                                                      ELSE "rich"]]
    /\ UNCHANGED <<current_margins, current_text_width>>
    /\ UNCHANGED <<rvars, fvars, dvars>>

\* line 276: c.save() emits the page in progress; every page holds an operation
Save(p) ==
    /\ gen[p].pc = "save"
    /\ gen' = [gen EXCEPT ![p].pc = "done", ![p].pages = gen[p].page]
    /\ UNCHANGED <<current_margins, current_text_width>>
    /\ UNCHANGED <<rvars, fvars, dvars>>

PdfStep(p) ==
    \/ SetMargins(p)
    \/ SetTextWidth(p)
    \/ DrawSenderBlock(p)
    \/ DrawSenderLine(p)
    \/ DrawRecipientAddress(p)
    \/ DrawDate(p)
    \/ DrawSubject(p)
    \/ EnterBody(p)
    \/ PlainLine(p)
    \/ RichBlock(p)
    \/ Save(p)

PdfNext ==
    \/ PdfCall
    \/ \E p \in Calls : PdfStep(p)

ConcNext ==
    \/ \E p \in Calls : ConcCall(p)
    \/ \E p \in Calls : PdfStep(p)

---------------------------------------------------------------------------
(* The same prose through both body paths: call 1 gets the lines as          *)
(* body_text, call 2 gets them as html_content, one div element a line, and  *)
(* runs when call 1 has returned.                                            *)

\* '\n'.join(lines)
RECURSIVE JoinLines(_)
JoinLines(lines) ==
    IF lines = <<>> THEN <<>>
    ELSE IF Len(lines) = 1 THEN lines[1]
    ELSE lines[1] \o <<"\n">> \o JoinLines(Tail(lines))

RECURSIVE DivLines(_)
DivLines(lines) ==
    IF lines = <<>> THEN <<>>
    ELSE <<StartTag("div"), Text(Head(lines)), EndTag("div")>> \o DivLines(Tail(lines))

\* n times the same line
Copies(str, n) == [i \in 1..n |-> str]

\* prose without greeting, bullets or blank lines: paragraphs of one line and
\* paragraphs that wrap under narrow margins; the margin dicts with a high
\* bottom margin make them run over the page
ProseLines ==
    { Copies(<<"a", "b">>, n) : n \in 1..MaxBodyLines }
    \cup { Copies(<<"a", "b", " ", "c", "d", " ", "e", "f">>, n) : n \in 1..MaxBodyLines }
    \cup { <<<<"a", "b">>, <<"a", "b", " ", "c", "d", " ", "e", "f", " ", "g", "h">>,
             <<"i", "j">>>> }

PairCall ==
    /\ gen[1].pc = "idle"
    /\ gen[2].pc = "idle"
    /\ \E lines \in ProseLines, m \in MarginDicts :
          gen' = [gen EXCEPT
                    ![1] = [NewCall EXCEPT !.data = MkData(NoHeader, m, JoinLines(lines), <<>>),
                                           !.pc = "margins"],
                    ![2] = [NewCall EXCEPT !.data = MkData(NoHeader, m, <<>>, DivLines(lines)),
                                           !.pc = "wait"]]
    /\ UNCHANGED <<current_margins, current_text_width>>
    /\ UNCHANGED <<rvars, fvars, dvars>>

\* the second request is served after the first
PairSecond ==
    /\ gen[1].pc = "done"
    /\ gen[2].pc = "wait"
    /\ gen' = [gen EXCEPT ![2].pc = "margins"]
    /\ UNCHANGED <<current_margins, current_text_width>>
    /\ UNCHANGED <<rvars, fvars, dvars>>

PairNext ==
    \/ PairCall
    \/ PairSecond
    \/ \E p \in Calls : PdfStep(p)

---------------------------------------------------------------------------
(* Specifications *)

vars == <<rvars, pvars, fvars, dvars>>

\* no call of the three functions below is in progress
FnInit ==
    /\ wrap = [pc |-> "idle", text |-> <<>>, max_width |-> 0, lines |-> <<>>]
    /\ fname = [pc |-> "idle", company |-> VNone, job_title |-> VNone, date |-> VNone,
                date_str |-> <<>>, company_clean |-> <<>>, job_clean |-> <<>>,
                res |-> <<>>]
    /\ html = [pc |-> "idle", tokens |-> <<>>, extra |-> <<>>, blocks |-> <<>>,
               blocks_extra |-> <<>>, chunks |-> 0]

\* the ids of the users table, and the contents an application row can carry
\* (company_name, job_title and the other columns, taken as one value)
MaxUsers == 3
UserIds == 1..MaxUsers
Contents == {"A", "B"}

\* no admin request in progress
NoRequest == [op |-> "none", user_id |-> 0]

\* the tables as db.create_all() leaves them, and nobody logged in
DbInit ==
    /\ db = [users |-> {}, applications |-> {}, deleted_records |-> {}]
    /\ session = [logged_in |-> {}, req |-> [u \in UserIds |-> NoRequest]]
    /\ deletes = [c \in Contents |-> 0]

Init == RenderInit /\ PdfInit /\ FnInit /\ DbInit

\* the template renderer
SpecRender == Init /\ [][RenderNext]_vars

\* the layout engine serving one request at a time
SpecPdf == Init /\ [][PdfNext]_vars

\* the layout engine serving two requests at once
SpecConc == Init /\ [][ConcNext]_vars

\* the layout engine serving the same prose as plain text and as rich text
SpecPair == Init /\ [][PairNext]_vars

---------------------------------------------------------------------------
(* Properties of the layout engine *)

\* the margins and the usable text width a call's own request asks for
OwnMargins(g) == MarginsOf(g.data.margins)
OwnTextWidth(g) == PAGE_WIDTH - OwnMargins(g).left - OwnMargins(g).right

HeaderEls == {"sender", "senderline", "address", "date", "subject"}
BodyEls == {"body", "bullet", "rule"}

\* the place of an element in the order of the letter
Rank(el) ==
    CASE el = "sender" -> 1
      [] el = "senderline" -> 2
      [] el = "address" -> 3
      [] el = "date" -> 4
      [] el = "subject" -> 5
      [] OTHER -> 6

\* the place of a position of the call in the order of generate_pdf
PcRank(pc) ==
    CASE pc \in {"idle", "margins", "width", "sender"} -> 0
      [] pc = "senderline" -> 1
      [] pc = "address" -> 2
      [] pc = "date" -> 3
      [] pc = "subject" -> 4
      [] pc = "body" -> 5
      [] OTHER -> 6

\* the indices of the log entries of element el
Of(g, el) == {k \in 1..Len(g.log) : g.log[k].el = el}

\* the number of entries of element el up to and including entry k
Nth(g, el, k) == Cardinality({j \in Of(g, el) : j <= k})

\* the text of an entry holds one word only
OneWord(text) == ~(" " \in Range(text))

\* entry e of call g is where margins m and text width tw put it
DrawnWith(g, e, m, tw) ==
    CASE e.el \in {"sender", "date"} -> e.x = PAGE_WIDTH - m.right
      [] e.el \in {"senderline", "address", "subject"} -> e.x = m.left
      [] e.el = "bullet" -> e.x = m.left + 5 * MM
      [] e.el = "body" ->
            \/ /\ e.x = m.left
               /\ OneWord(e.text) \/ stringWidth(e.text, e.font, FONT_SIZE) <= tw
            \/ /\ e.x = m.left + BULLET_INDENT
               /\ \/ OneWord(e.text)
                  \/ stringWidth(e.text, e.font, FONT_SIZE) <= tw - BULLET_INDENT
      [] e.el = "break" -> e.y = 297 * MM - m.top
      [] OTHER -> e.x = m.left

\* C3: when two generate_pdf calls with different margins run at the same time,
\* every element a call draws is placed by that call's own margins and wrapped
\* to that call's own text width
C3_CallLocalLayout ==
    \A p \in Calls :
        \A k \in 1..Len(gen[p].log) :
            DrawnWith(gen[p], gen[p].log[k], OwnMargins(gen[p]), OwnTextWidth(gen[p]))

\* the anchor of header entry k of call g, from the margins m and the page constants
AtAnchor(g, k, m) ==
    LET e == g.log[k]
        n == Nth(g, e.el, k)
    IN  CASE e.el = "sender" ->
                /\ e.x = PAGE_WIDTH - m.right
                /\ e.y \in {297 * MM - m.top - (n - 1) * 12 * PT,
                            297 * MM - m.top - (n - 1) * 12 * PT - 6 * PT}
                /\ n = 1 /\ g.data.your_name # <<>> => e.y = 297 * MM - m.top
          [] e.el = "senderline" ->
                /\ e.x = m.left
                /\ e.y = IF e.op = "line" THEN SENDER_LINE_Y - 2 * PT ELSE SENDER_LINE_Y
          [] e.el = "address" ->
                /\ e.x = m.left
                /\ e.y = ADDRESS_FIELD_TOP - 15 * PT - (n - 1) * LINE_HEIGHT * PT
          [] e.el = "date" -> e.x = PAGE_WIDTH - m.right /\ e.y = DATE_Y
          [] e.el = "subject" -> e.x = m.left /\ e.y = SUBJECT_Y
          [] OTHER -> TRUE

\* the header of call g is drawn once, in order, on page 1, at its anchors
HeaderOnce(g) ==
    /\ \A j, k \in 1..Len(g.log) : j < k => Rank(g.log[j].el) <= Rank(g.log[k].el)
    /\ \A k \in 1..Len(g.log) :
        /\ g.log[k].el \in HeaderEls => g.log[k].page = 1
        /\ Rank(g.log[k].el) <= PcRank(g.pc)
        /\ AtAnchor(g, k, OwnMargins(g))
    /\ Cardinality(Of(g, "date")) = IF PcRank(g.pc) >= 4 THEN 1 ELSE 0
    /\ Cardinality(Of(g, "subject")) =
            IF PcRank(g.pc) >= 5 /\ SubjectOf(g.data) # <<>> THEN 1 ELSE 0
    /\ PcRank(g.pc) >= 1 /\ g.data.your_name # <<>> => Of(g, "sender") # {}
    /\ PcRank(g.pc) >= 3 /\ g.data.company # <<>> => Of(g, "address") # {}
    /\ g.page > 1 => g.pc \in {"plain", "rich", "save", "done"}
    /\ Of(g, "break") # {} => g.page > 1

\* C9: in every generate_pdf call the sender block, the address field, the date
\* line and the subject are drawn once each (an element without content draws
\* nothing), in that order and before any body line, on page 1, at anchors given
\* by the margins and the page constants alone; pages break only in the body
C9_HeaderOnceInOrder == \A p \in Calls : HeaderOnce(gen[p])

\* a finished two-page letter with sender block, address field and subject
C9_Witness ==
    /\ gen[1].pc = "done"
    /\ gen[1].pages >= 2
    /\ Of(gen[1], "sender") # {}
    /\ Of(gen[1], "address") # {}
    /\ Of(gen[1], "subject") # {}
    /\ Of(gen[1], "body") # {}

\* the entries that draw text of the body
TextEls == {"body", "bullet"}

\* the index of the first body text drawn on page pg of call g, 0 when there is none
FirstOnPage(g, pg) ==
    LET on == {k \in 1..Len(g.log) : g.log[k].el \in TextEls /\ g.log[k].page = pg}
    IN  IF on = {} THEN 0 ELSE CHOOSE k \in on : \A j \in on : k <= j

\* the index of the page break that opened page pg
BreakOf(g, pg) == CHOOSE k \in Of(g, "break") : g.log[k].page = pg

GapSums(g) ==
    {(6 * a + 11 * b) * PT : a \in 0..2, b \in 0..(Len(g.lines) + Len(g.blocks))}

\* entry f, the first of its page, continues the text the break sp interrupted:
\* the next prose line (plain text), the next wrapped line or list item of the
\* same block or a text block right after a text block (rich text)
Continues(g, f, sp) ==
    IF g.data.html_content = <<>>
    THEN f.el = "body" /\ f.blk = sp.blk + 1
    ELSE \/ f.blk = sp.blk
         \/ /\ f.blk = sp.blk + 1
            /\ g.blocks[sp.blk].type = "text"
            /\ g.blocks[f.blk].type = "text"

PageBreaks(g) ==
    LET m == OwnMargins(g)
    IN  /\ \A k \in 1..Len(g.log) :
            g.log[k].el \in TextEls /\ g.log[k].y - LINE_HEIGHT * PT < m.bottom =>
                \E j \in Of(g, "break") : j > k /\ g.log[j].page = g.log[k].page + 1
        /\ g.pc = "done" => g.pages = Cardinality(Of(g, "break")) + 1
        /\ \A k \in Of(g, "break") : g.log[k].y = 297 * MM - m.top
        /\ \A pg \in 2..g.page :
            FirstOnPage(g, pg) # 0 =>
                LET f == g.log[FirstOnPage(g, pg)]
                    sp == g.log[BreakOf(g, pg)]
                IN  /\ (297 * MM - m.top) - f.y \in GapSums(g)
                    /\ Continues(g, f, sp) => f.y = 297 * MM - m.top

---------------------------------------------------------------------------
(* _wrap_text as a function of its arguments *)

\* the longest text handed to _wrap_text, in characters
MaxTextLen == 6

WrapAlphabet == {"a", "W", " ", "\n"}

WrapTexts == UNION {[1..n -> WrapAlphabet] : n \in 0..MaxTextLen}

\* maximum widths, between nothing and a line that holds every text of the model
WrapWidths == {0, 1000000, 1600000, 2000000, 3500000, 10 * MM}

\* a caller enters _wrap_text(text, max_width, c)
WrapCall ==
    /\ wrap.pc = "idle"
    /\ \E text \in WrapTexts, max_width \in WrapWidths :
            wrap' = [pc |-> "called", text |-> text, max_width |-> max_width,
                     lines |-> <<>>]
    /\ UNCHANGED <<rvars, pvars, fname, html, dvars>>

\* lines 581-600
WrapReturn ==
    /\ wrap.pc = "called"
    /\ wrap' = [wrap EXCEPT !.pc = "returned",
                            !.lines = _wrap_text(wrap.text, wrap.max_width, font_name)]
    /\ UNCHANGED <<rvars, pvars, fname, html, dvars>>

WrapNext ==
    \/ WrapCall
    \/ WrapReturn

SpecWrap == Init /\ [][WrapNext]_vars

\* C11: joining the lines _wrap_text returns with single spaces gives the words
\* of the text, in their order, each once
C11_WrapKeepsWords ==
    wrap.pc = "returned" =>
        /\ Join(wrap.lines) = Join(Words(wrap.text))
        /\ Words(Join(wrap.lines)) = Words(wrap.text)

\* a text with a run of whitespace, wrapped into several lines, one of two words
C11_Witness ==
    /\ wrap.pc = "returned"
    /\ Len(wrap.lines) >= 2
    /\ \E k \in 1..Len(wrap.lines) : Len(Words(wrap.lines[k])) >= 2
    /\ wrap.text # Join(Words(wrap.text))

\* the smallest integer that is at least a / b, for b > 0
Ceil(a, b) == (a + b - 1) \div b

\* the text has a word, and each of its words is narrower than max_width
NarrowWords(text, max_width) ==
    /\ Words(text) # <<>>
    /\ \A k \in 1..Len(Words(text)) :
            stringWidth(Words(text)[k], font_name, FONT_SIZE) < max_width

\* the measured width of the words of the text on one line
TotalWidth(text) == stringWidth(Join(Words(text)), font_name, FONT_SIZE)

SpaceWidth == stringWidth(<<" ">>, font_name, FONT_SIZE)

\* C12 as stated: for words each narrower than the width, single spaces between
\* them, the number of lines is ceil(total width / width)
C12_LineCountIsCeil ==
    wrap.pc = "returned" /\ NarrowWords(wrap.text, wrap.max_width)
        /\ wrap.text = Join(Words(wrap.text)) =>
            Len(wrap.lines) = Ceil(TotalWidth(wrap.text), wrap.max_width)

\* C12, amended: for N words each narrower than the width, the number of lines
\* is at least ceil((total + space) / (width + space)) and at most N, and it is
\* 1 exactly when the total width is within the width
C12_LineCountBounds ==
    wrap.pc = "returned" /\ NarrowWords(wrap.text, wrap.max_width) =>
        /\ Len(wrap.lines) >= Ceil(TotalWidth(wrap.text) + SpaceWidth,
                                   wrap.max_width + SpaceWidth)
        /\ Len(wrap.lines) <= Len(Words(wrap.text))
        /\ Len(wrap.lines) = 1 <=> TotalWidth(wrap.text) <= wrap.max_width

\* narrow words wrapped into several lines, but not into ceil(total / width) lines
C12_Witness ==
    /\ wrap.pc = "returned"
    /\ NarrowWords(wrap.text, wrap.max_width)
    /\ Len(wrap.lines) >= 2
    /\ Len(wrap.lines) # Ceil(TotalWidth(wrap.text), wrap.max_width)

---------------------------------------------------------------------------
(* Properties of the plain-text body *)

\* call g runs the plain-text path and has read its lines
InPlain(g) == g.pc \in {"plain", "save", "done"} /\ g.data.html_content = <<>>

\* the indices of the text entries of input line k, in drawing order
LineEntries(g, k) == {j \in 1..Len(g.log) : g.log[j].el = "body" /\ g.log[j].blk = k}

\* the j-th smallest element of a set of indices
RECURSIVE NthOf(_, _)
NthOf(S, j) ==
    LET m == CHOOSE x \in S : \A z \in S : x <= z
    IN  IF j = 1 THEN m ELSE NthOf(S \ {m}, j - 1)

\* the texts of the entries with indices in S, from the j-th on, in order
RECURSIVE TextsFrom(_, _, _)
TextsFrom(g, S, j) ==
    IF j > Cardinality(S) THEN <<>> ELSE <<g.log[NthOf(S, j)].text>> \o TextsFrom(g, S, j + 1)

\* the text of a bullet line after its marker
BulletText(str) == Strip(LStripChars(Strip(str), BulletChars \cup {" "}))

\* the entries of bullet line k: at the text indent, on one page, a line height apart
BulletBlock(g, k) ==
    LET S == LineEntries(g, k)
    IN  /\ S # {}
        /\ \A j \in 1..Cardinality(S) :
            LET e == g.log[NthOf(S, j)]
                first == g.log[NthOf(S, 1)]
            IN  /\ e.x = g.x + BULLET_INDENT
                /\ e.page = first.page
                /\ e.y = first.y - (j - 1) * LINE_HEIGHT * PT
                /\ e.size = FONT_SIZE

\* bullet line k with a parenthesis: a bold label, then the remainder wrapped
LabelledBullet(g, k) ==
    LET S == LineEntries(g, k)
        text == BulletText(g.lines[k])
        i == FirstIndex(text, "(")
        rest == TextsFrom(g, S, 2)
    IN  /\ BulletBlock(g, k)
        /\ Cardinality(S) >= 2
        /\ g.log[NthOf(S, 1)].font = font_name_bold
        /\ g.log[NthOf(S, 1)].text = Strip(SubSeq(text, 1, i - 1))
        /\ \A j \in 2..Cardinality(S) : g.log[NthOf(S, j)].font = font_name
        /\ Head(Head(rest)) = "("
        /\ Join(rest) = Join(Words(SubSeq(text, i, Len(text))))

\* bullet line k without a parenthesis: one wrapped block of normal weight
PlainBulletBlock(g, k) ==
    LET S == LineEntries(g, k)
    IN  /\ BulletBlock(g, k)
        /\ \A j \in 1..Cardinality(S) : g.log[NthOf(S, j)].font = font_name
        /\ Join(TextsFrom(g, S, 1)) = Join(Words(BulletText(g.lines[k])))

\* C13: in the plain-text path a bullet line with a parenthesis is drawn as a bold
\* line with the text before the first "(" and then normal-weight wrapped lines
\* that begin with the parenthesized remainder, all at the bullet text indent, a
\* line height apart; a bullet line without a parenthesis is drawn as one
\* normal-weight wrapped block at the same indent
C13_BulletLabel ==
    \A p \in Calls :
        InPlain(gen[p]) =>
            \A k \in 1..(gen[p].i - 1) :
                is_bullet(Strip(gen[p].lines[k])) =>
                    IF "(" \in Range(BulletText(gen[p].lines[k]))
                    THEN LabelledBullet(gen[p], k)
                    ELSE PlainBulletBlock(gen[p], k)

\* a finished letter with a labelled bullet whose remainder wraps into two lines
\* and a bullet without a parenthesis
C13_Witness ==
    /\ InPlain(gen[1]) /\ gen[1].pc = "done"
    /\ \E k \in 1..Len(gen[1].lines) :
        /\ is_bullet(Strip(gen[1].lines[k]))
        /\ "(" \in Range(BulletText(gen[1].lines[k]))
        /\ Cardinality(LineEntries(gen[1], k)) >= 3
    /\ \E k \in 1..Len(gen[1].lines) :
        /\ is_bullet(Strip(gen[1].lines[k]))
        /\ ~("(" \in Range(BulletText(gen[1].lines[k])))

---------------------------------------------------------------------------
(* generate_filename (pdfgen.py, lines 607-637); "uuml" is the character U+00FC *)

\* datetime.strptime(date, '%d.%m.%Y'): the date, or ok = FALSE for ValueError
StrptimeDMY(str) ==
    LET parts == Split(str, ".")
        wellFormed ==
            /\ Len(parts) = 3
            /\ IsDigits(parts[1]) /\ Len(parts[1]) \in {1, 2}
            /\ IsDigits(parts[2]) /\ Len(parts[2]) \in {1, 2}
            /\ IsDigits(parts[3]) /\ Len(parts[3]) = 4
        d == NumberOf(parts[1])
        m == NumberOf(parts[2])
        y == NumberOf(parts[3])
    IN  IF wellFormed /\ y >= 1 /\ m \in 1..12 /\ d >= 1 /\ d <= DaysInMonth(m, y)
        THEN [ok |-> TRUE, date |-> [y |-> y, m |-> m, d |-> d]]
        ELSE [ok |-> FALSE, date |-> StartDate]

\* date.strftime('%Y-%m-%d')
StrftimeYMD(dt) == Pad4(dt.y) \o <<"-">> \o Pad2(dt.m) \o <<"-">> \o Pad2(dt.d)

\* lines 609-618: the date the name carries
FilenameDate(date, today) ==
    IF date.t # "str" THEN today
    ELSE LET parsed == IF "-" \in Range(date.s) THEN StrptimeYMD(date.s)
                       ELSE StrptimeDMY(date.s)
         IN  IF parsed.ok THEN parsed.date ELSE today

\* the chain of str.replace calls of lines 625-628, character by character
ReplaceChar(ch) ==
    CASE ch \in {"/", "\\"} -> <<"-">>
      [] ch \in {":", "*", "?", "\"", "<", ">", "|"} -> <<>>
      [] ch = "&" -> <<"und">>
      [] OTHER -> <<ch>>

RECURSIVE ReplaceAll(_)
ReplaceAll(name) == IF name = <<>> THEN <<>> ELSE ReplaceChar(Head(name)) \o ReplaceAll(Tail(name))

\* '_'.join(words)
RECURSIVE JoinUnderscore(_)
JoinUnderscore(words) ==
    IF words = <<>> THEN <<>>
    ELSE IF Len(words) = 1 THEN words[1]
    ELSE words[1] \o <<"_">> \o JoinUnderscore(Tail(words))

\* clean_name that keeps the ampersand
clean_name_keepAmp(name) ==
    IF ~Truthy(name) THEN Ret(<<>>)
    ELSE IF name.t # "str" THEN Raise("AttributeError")
    ELSE Ret(JoinUnderscore(Words(name.s)))

\* clean_name, lines 621-631; a number has no replace method
clean_name(name) ==
    IF ~Truthy(name) THEN Ret(<<>>)
    ELSE IF name.t # "str" THEN Raise("AttributeError")
    ELSE Ret(JoinUnderscore(Words(ReplaceAll(name.s))))

\* generate_filename, lines 607-637
generate_filename(company, job_title, date, today) ==
    LET company_clean == clean_name(company)
        job_clean == clean_name(job_title)
    IN  IF date.t = "int" THEN Raise("AttributeError")
        ELSE IF company_clean.exc # "none" THEN company_clean
        ELSE IF job_clean.exc # "none" THEN job_clean
        ELSE Ret(<<"Bewerbung_">> \o StrftimeYMD(FilenameDate(date, today)) \o <<"_">>
                 \o (IF company_clean.val # <<>> THEN company_clean.val
                     ELSE <<"Unternehmen">>)
                 \o <<"_">>
                 \o (IF job_clean.val # <<>> THEN job_clean.val ELSE <<"Bewerbung">>)
                 \o <<".pdf">>)

\* the longest generated company name, in characters
MaxNameLen == 3

NameAlphabet == {"a", " ", "/", "&", "?", "_"}

ExampleCompany == Str(<<"M", "uuml", "l", "l", "e", "r", " ", "&", " ", "C", "o", ".">>)
ExampleJob ==
    Str(<<"S", "e", "n", "i", "o", "r", " ", "D", "e", "v", "/", "O", "p", "s">>)
ExampleDate == Str(<<"2", "0", "2", "4", "-", "0", "3", "-", "0", "5">>)

\* data.get('company', ''): a string, a JSON null or a JSON number
Companies ==
    {Str(n) : n \in UNION {[1..k -> NameAlphabet] : k \in 0..MaxNameLen}}
    \cup {VNone, Num(5), ExampleCompany, Str(<<"a", "\\", "b", ":", "c", "*", "\"", "<", ">", "|", "\n", " ", "d">>)}

JobTitles == {VNone, Str(<<>>), Num(5), ExampleJob, Str(<<"?", " ">>), Str(<<"a", " ", "&">>)}

\* data.get('date'): None when the key is missing
FilenameDates ==
    {VNone, Num(5), ExampleDate, Str(<<"5", ".", "3", ".", "2", "0", "2", "4">>), Str(<<"2", "0", "2", "4", "-", "1", "3", "-", "0", "1">>), Str(<<>>), Str(<<"0", "5", "-", "0", "3">>)}

\* api_export_pdf calls generate_filename(company, job_title, date)
FilenameCall ==
    /\ fname.pc = "idle"
    /\ \E company \in Companies, job_title \in JobTitles, date \in FilenameDates :
            fname' = [fname EXCEPT !.pc = "called", !.company = company,
                                   !.job_title = job_title, !.date = date]
    /\ UNCHANGED <<rvars, pvars, wrap, html, dvars>>

\* lines 609-637: the name is returned, or the call raises
FilenameReturn ==
    /\ fname.pc = "called"
    /\ LET r == generate_filename(fname.company, fname.job_title, fname.date, Today)
           ok == r.exc = "none"
       IN  fname' = [fname EXCEPT
                !.pc = IF ok THEN "returned" ELSE "raised",
                !.res = IF ok THEN r.val ELSE <<r.exc>>,
                !.date_str = IF ok THEN SubSeq(r.val, 2, 11) ELSE <<>>,
                !.company_clean =
                    IF ~ok THEN <<>>
                    ELSE IF clean_name(fname.company).val # <<>>
                    THEN clean_name(fname.company).val ELSE <<"Unternehmen">>,
                !.job_clean =
                    IF ~ok THEN <<>>
                    ELSE IF clean_name(fname.job_title).val # <<>>
                    THEN clean_name(fname.job_title).val ELSE <<"Bewerbung">>]
    /\ UNCHANGED <<rvars, pvars, wrap, html, dvars>>

FilenameNext ==
    \/ FilenameCall
    \/ FilenameReturn

SpecFilename == Init /\ [][FilenameNext]_vars

Forbidden == {"/", "\\", ":", "*", "?", "\"", "<", ">", "|", "&"}

\* the characters that clean_name removes or that separate words
Vanishing == {":", "*", "?", "\"", "<", ">", "|"} \cup Whitespace

Count(str, ch) == Cardinality({k \in 1..Len(str) : str[k] = ch})

\* str is YYYY-MM-DD
DateShaped(str) ==
    /\ Len(str) = 10
    /\ str[5] = "-" /\ str[8] = "-"
    /\ IsDigits(SubSeq(str, 1, 4)) /\ IsDigits(SubSeq(str, 6, 7)) /\ IsDigits(SubSeq(str, 9, 10))
    /\ NumberOf(SubSeq(str, 6, 7)) \in 1..12
    /\ NumberOf(SubSeq(str, 9, 10)) \in 1..31

\* part is the clean form of the input v, or the fallback word when v is missing
\* or nothing of it is kept
CleanPart(part, v, fallback) ==
    LET kept == v.t = "str" /\ \E k \in 1..Len(v.s) : ~(v.s[k] \in Vanishing)
    IN  /\ part # <<>>
        /\ Range(part) \cap (Forbidden \cup Whitespace) = {}
        /\ ~kept => part = <<fallback>>
        /\ kept =>
            /\ Count(part, "und") = Count(v.s, "&")
            /\ Count(v.s, "_") = 0 =>
                    \A k \in 1..(Len(part) - 1) : ~(part[k] = "_" /\ part[k + 1] = "_")

---------------------------------------------------------------------------
(* Properties of the date line *)

\* str is YYYY-MM-DD and names a day of the calendar
IsoDate(str) ==
    /\ DateShaped(str)
    /\ NumberOf(SubSeq(str, 1, 4)) >= 1
    /\ NumberOf(SubSeq(str, 9, 10)) <= DaysInMonth(NumberOf(SubSeq(str, 6, 7)),
                                                   NumberOf(SubSeq(str, 1, 4)))

\* str is DD.MM.YYYY
GermanDate(str) ==
    /\ Len(str) = 10
    /\ str[3] = "." /\ str[6] = "."
    /\ IsDigits(SubSeq(str, 1, 2)) /\ IsDigits(SubSeq(str, 4, 5)) /\ IsDigits(SubSeq(str, 7, 10))

\* the date the date line of call g shows: what follows ", den "
ShownDate(g) ==
    LET text == g.log[CHOOSE k \in Of(g, "date") : TRUE].text
    IN  SubSeq(text, FirstIndex(text, ", den ") + 1, Len(text))

\* C15: the date line shows an ISO date YYYY-MM-DD as DD.MM.YYYY, a date given
\* as DD.MM.YYYY unchanged and a date that cannot be parsed unchanged; the call
\* goes on to draw the date line whatever the date string is, and a missing date
\* is shown as the current date
C15_DateLine ==
    \A p \in Calls :
        PcRank(gen[p].pc) >= 4 =>
            LET date == gen[p].data.date
            IN  /\ Cardinality(Of(gen[p], "date")) = 1
                /\ date.t = "absent" => ShownDate(gen[p]) = StrftimeDMY(Today)
                /\ date.t = "str" /\ IsoDate(date.s) =>
                        ShownDate(gen[p]) = SubSeq(date.s, 9, 10) \o <<".">>
                                                \o SubSeq(date.s, 6, 7) \o <<".">>
                                                \o SubSeq(date.s, 1, 4)
                /\ date.t = "str" /\ GermanDate(date.s) => ShownDate(gen[p]) = date.s
                /\ date.t = "str" /\ ~StrptimeYMD(date.s).ok => ShownDate(gen[p]) = date.s

\* a letter whose ISO date is on the date line in the German form
C15_Witness ==
    /\ PcRank(gen[1].pc) >= 4
    /\ gen[1].data.date.t = "str"
    /\ IsoDate(gen[1].data.date.s)
    /\ GermanDate(ShownDate(gen[1]))

---------------------------------------------------------------------------
(* HTMLToTextConverter on its own: _parse_html_content of an input and of   *)
(* the same input with tags outside the supported subset put into it.       *)

MaxInserts == 2

\* tags the handlers have no branch for
UnsupportedTags == {"span", "style"}

HtmlInputs ==
    { <<>>,
      Para(<<"a", "b">>),
      <<Text(<<"a">>), StartTag("b"), Text(<<"b">>), EndTag("b")>>,
      <<StartTag("ul")>> \o Item(<<"a">>) \o <<EndTag("ul")>>,
      <<StartTag("ol")>> \o Item(<<"a">>) \o <<EndTag("ol")>>,
      <<Text(<<"a">>), StartTag("br"), Text(<<"b">>)>>,
      <<StartTag("div"), Text(<<"a">>), EndTag("div"), Text(<<"b">>)>> }

InsertAt(seq, i, x) == SubSeq(seq, 1, i) \o <<x>> \o SubSeq(seq, i + 1, Len(seq))

\* the two token sequences are chosen: so far they are the same
HtmlCall ==
    /\ html.pc = "idle"
    /\ \E tokens \in HtmlInputs :
          html' = [html EXCEPT !.pc = "edit", !.tokens = tokens, !.extra = tokens]
    /\ UNCHANGED <<rvars, pvars, wrap, fname, dvars>>

\* one more start or end tag of an unsupported element goes into the second
HtmlInsert ==
    /\ html.pc = "edit"
    /\ Len(html.extra) < Len(html.tokens) + MaxInserts
    /\ \E i \in 0..Len(html.extra), tag \in UnsupportedTags, end \in BOOLEAN :
          html' = [html EXCEPT
                     !.extra = InsertAt(@, i, IF end THEN EndTag(tag) ELSE StartTag(tag))]
    /\ UNCHANGED <<rvars, pvars, wrap, fname, dvars>>

\* both are parsed
HtmlReturn ==
    /\ html.pc = "edit"
    /\ html' = [html EXCEPT !.pc = "done",
                            !.blocks = _parse_html_content(html.tokens),
                            !.blocks_extra = _parse_html_content(html.extra)]
    /\ UNCHANGED <<rvars, pvars, wrap, fname, dvars>>

HtmlNext == HtmlCall \/ HtmlInsert \/ HtmlReturn

SpecHtml == Init /\ [][HtmlNext]_vars

\* the tags put into the second sequence
Inserted ==
    {html.extra[i].tag : i \in 1..Len(html.extra)}
        \ {html.tokens[i].tag : i \in 1..Len(html.tokens)}

\* C16: putting start or end tags of unsupported elements anywhere into an
\* input leaves the sequence of blocks the parser emits unchanged.
C16_UnsupportedTagsIgnored ==
    html.pc = "done" => html.blocks_extra = html.blocks

\* the same holds once the elements whose content HTMLParser reads as raw
\* text are left out
UnsupportedTagsIgnoredOutsideCdata ==
    (html.pc = "done" /\ Inserted \cap CDATA_CONTENT_ELEMENTS = {})
        => html.blocks_extra = html.blocks

---------------------------------------------------------------------------
(* The empty body *)

EmptyBody(g) == g.data.body_text = <<>> /\ g.data.html_content = <<>>

\* C17: a generate_pdf call with neither body_text nor html_content runs to its
\* end: it draws the header elements and nothing else, never enters a body
\* loop, breaks no page and returns a document of one page.
C17_EmptyBodyMinimalDocument ==
    \A p \in Calls :
        LET g == gen[p]
        IN  EmptyBody(g) =>
                /\ g.pc \notin {"plain", "rich"}
                /\ \A k \in 1..Len(g.log) : g.log[k].el \in HeaderEls
                /\ g.page = 1
                /\ g.pc \in {"save", "done"} =>
                        /\ Cardinality(Of(g, "date")) = 1
                        /\ g.data.your_name # <<>> => Of(g, "sender") # {}
                        /\ g.data.company # <<>> => Of(g, "address") # {}
                        /\ SubjectOf(g.data) # <<>> => Cardinality(Of(g, "subject")) = 1
                /\ g.pc = "done" => g.pages = 1

\* a finished call with an empty body whose header has every element
C17_Witness ==
    /\ gen[1].pc = "done"
    /\ EmptyBody(gen[1])
    /\ gen[1].pages = 1
    /\ Of(gen[1], "sender") # {}
    /\ Of(gen[1], "address") # {}
    /\ Of(gen[1], "date") # {}
    /\ Of(gen[1], "subject") # {}

---------------------------------------------------------------------------
(* The page-break rule *)

\* the body text entries of call g drawn below the bottom margin of its request
BelowBottom(g) ==
    {k \in 1..Len(g.log) : g.log[k].el \in TextEls /\ g.log[k].y < OwnMargins(g).bottom}

\* C18: in both body paths no body line is drawn below the bottom margin: the
\* page is broken and the cursor reset before a line that would fall below it
\* is drawn.
C18_NoLineBelowBottom == \A p \in Calls : BelowBottom(gen[p]) = {}

---------------------------------------------------------------------------
(* Pagination in the two body paths *)

\* the body lines of call g in drawing order, each with its page and height
Pagination(g) ==
    LET body == SelectSeq(g.log, LAMBDA e : e.el = "body")
    IN  [k \in 1..Len(body) |-> <<body[k].text, body[k].page, body[k].y>>]

BothDone == gen[1].pc = "done" /\ gen[2].pc = "done"

\* C19: for the same prose lines and the same margins the plain-text path and
\* the rich-text path break their pages after the same lines and go on at the
\* same height: every line is drawn on the same page at the same y, and the
\* documents have the same number of pages.
C19_SamePagination ==
    BothDone => /\ Pagination(gen[1]) = Pagination(gen[2])
                /\ gen[1].pages = gen[2].pages

\* the two paths do agree on letters none of whose lines is wrapped
SamePaginationWithoutWrap ==
    (BothDone /\ Len(Pagination(gen[1])) = Len(gen[1].lines)) =>
        /\ Pagination(gen[1]) = Pagination(gen[2])
        /\ gen[1].pages = gen[2].pages

---------------------------------------------------------------------------
(* Where the plain-text body starts *)

\* line i of the body is a greeting line
GreetingAt(lines, i) == IsGreeting(Lower(Strip(lines[i])))

\* the lines of body_text and the index of its first greeting line, 0 without
BodyLines(g) == Split(g.data.body_text, "\n")
FirstGreeting(g) ==
    LET S == {i \in 1..Len(BodyLines(g)) : GreetingAt(BodyLines(g), i)}
    IN  IF S = {} THEN 0 ELSE CHOOSE i \in S : \A j \in S : i <= j

\* the body entries of call g follow the body lines from line s on: entry blk k
\* belongs to line s + k - 1, a blank line draws nothing, and a line that was
\* processed has all its words drawn, in their order
RenderedFrom(g, s) ==
    LET lines == BodyLines(g)
        n == Len(lines) - s + 1
    IN  /\ g.lines = [k \in 1..n |-> lines[s + k - 1]]
        /\ \A j \in 1..Len(g.log) :
                g.log[j].el \in BodyEls => g.log[j].blk \in 1..n /\ g.log[j].blk <= g.i
        /\ \A j, k \in 1..Len(g.log) :
                (j < k /\ g.log[j].el \in BodyEls /\ g.log[k].el \in BodyEls)
                    => g.log[j].blk <= g.log[k].blk
        /\ \A k \in 1..(g.i - 1) :
                LET str == Strip(lines[s + k - 1])
                    S == LineEntries(g, k)
                IN  /\ str = <<>> => S = {}
                    /\ str # <<>> => S # {}
                    /\ (str # <<>> /\ ~is_bullet(str))
                            => Join(TextsFrom(g, S, 1)) = Join(Words(str))
        /\ g.pc \in {"save", "done"} => g.i = n + 1

\* C20: in the plain-text path the rendered content starts at the first line
\* whose lower-cased, stripped text begins with "sehr geehrte", "liebes" or
\* "liebe ": no line before it is drawn, and that line and all lines after it are
\* drawn in order, the greeting first at the body-start anchor.
C20_StartsAtGreeting ==
    \A p \in Calls :
        (InPlain(gen[p]) /\ FirstGreeting(gen[p]) # 0) =>
            /\ RenderedFrom(gen[p], FirstGreeting(gen[p]))
            /\ gen[p].i > 1 =>
                    LET e == gen[p].log[NthOf(LineEntries(gen[p], 1), 1)]
                    IN  /\ IsGreeting(Lower(Join(TextsFrom(gen[p], LineEntries(gen[p], 1), 1))))
                        /\ e.y = TEXT_START_Y
                        /\ e.page = 1
                        /\ \A j \in 1..Len(gen[p].log) :
                                gen[p].log[j].el \in BodyEls
                                    => j >= NthOf(LineEntries(gen[p], 1), 1)

\* a finished letter whose body had a line before the greeting and lines after it
C20_Witness ==
    /\ gen[1].pc = "done"
    /\ InPlain(gen[1])
    /\ FirstGreeting(gen[1]) > 1
    /\ Len(gen[1].lines) >= 2
    /\ Cardinality(Of(gen[1], "body")) >= 2
    /\ ~IsGreeting(Lower(Strip(BodyLines(gen[1])[1])))

\* call g runs the plain-text path on a body with text none of whose lines is a
\* greeting
NoGreeting(g) == InPlain(g) /\ g.data.body_text # <<>> /\ FirstGreeting(g) = 0

---------------------------------------------------------------------------
(* Vertical gaps of the plain-text body *)

\* line 517: the gap in front of a bullet run
TransitionGap == 6

IsBulletLine(g, k) == is_bullet(Strip(g.lines[k]))
IsProseLine(g, k) == Strip(g.lines[k]) # <<>> /\ ~IsBulletLine(g, k)

\* the last entry of line k - 1 and the first entry of line k, both drawn
LastOf(g, k) == g.log[NthOf(LineEntries(g, k), Cardinality(LineEntries(g, k)))]
FirstOf(g, k) == g.log[NthOf(LineEntries(g, k), 1)]

\* lines k - 1 and k are drawn, one right after the other on one page
Adjacent(g, k) ==
    /\ k \in 2..(g.i - 1)
    /\ LineEntries(g, k - 1) # {}
    /\ LineEntries(g, k) # {}
    /\ LastOf(g, k - 1).page = FirstOf(g, k).page

\* what the cursor moved between the two lines beyond one line height
ExtraGap(g, k) == LastOf(g, k - 1).y - FirstOf(g, k).y - LINE_HEIGHT * PT

\* the gaps between consecutive bullets and in front of a bullet run
GapsBetweenAndBefore(g) ==
    \A k \in 2..(g.i - 1) :
        Adjacent(g, k) =>
            /\ (IsBulletLine(g, k - 1) /\ IsBulletLine(g, k)) =>
                    /\ ExtraGap(g, k) = BULLET_SPACING * PT
                    /\ ExtraGap(g, k) < PARAGRAPH_SPACING * PT
            /\ (IsProseLine(g, k - 1) /\ IsBulletLine(g, k)) =>
                    ExtraGap(g, k) = TransitionGap * PT

\* the gap behind a bullet run: the transition gap, alone or on top of the gap
\* that follows every bullet item
GapBehind(g) ==
    \A k \in 2..(g.i - 1) :
        (Adjacent(g, k) /\ IsBulletLine(g, k - 1) /\ IsProseLine(g, k)) =>
            ExtraGap(g, k) \in {TransitionGap * PT, (BULLET_SPACING + TransitionGap) * PT}

\* C22: in the plain-text path two consecutive bullet items are separated by an
\* extra gap smaller than a paragraph break, and the cursor is lowered by the
\* half-size transition gap both in front of the first bullet of a run and in
\* front of the first non-bullet line behind it.
C22_BulletGaps ==
    \A p \in Calls : InPlain(gen[p]) => GapsBetweenAndBefore(gen[p]) /\ GapBehind(gen[p])

\* the first two parts on their own
BulletGapsBetweenAndBefore ==
    \A p \in Calls : InPlain(gen[p]) => GapsBetweenAndBefore(gen[p])

\* behind a bullet run the cursor is where every bullet item leaves it
BulletGapBehindIsItemGap ==
    \A p \in Calls :
        InPlain(gen[p]) =>
            \A k \in 2..(gen[p].i - 1) :
                (Adjacent(gen[p], k) /\ IsBulletLine(gen[p], k - 1) /\ IsProseLine(gen[p], k))
                    => ExtraGap(gen[p], k) = BULLET_SPACING * PT

---------------------------------------------------------------------------
(* _wrap_text packs greedily *)

WidthOf(str) == stringWidth(str, font_name, FONT_SIZE)

\* the first word of a line
FirstWord(str) == Head(Words(str))

\* C23: every line _wrap_text returns is within the maximum width or is a single
\* word; a word wider than the maximum width stands alone on its line, whole;
\* and a line is broken only in front of a word that would not have fitted on
\* the line before it.
C23_GreedyPacking ==
    wrap.pc = "returned" =>
        /\ Len(wrap.lines) >= 1
        /\ Words(Join(wrap.lines)) = Words(wrap.text)
        /\ \A k \in 1..Len(wrap.lines) :
                \/ WidthOf(wrap.lines[k]) <= wrap.max_width
                \/ Len(Words(wrap.lines[k])) = 1
        /\ \A k \in 1..Len(wrap.lines) :
                \A j \in 1..Len(Words(wrap.lines[k])) :
                    WidthOf(Words(wrap.lines[k])[j]) > wrap.max_width
                        => wrap.lines[k] = Words(wrap.lines[k])[j]
        /\ \A k \in 2..Len(wrap.lines) :
                WidthOf(Join(<<wrap.lines[k - 1], FirstWord(wrap.lines[k])>>)) > wrap.max_width

\* a word wider than the width alone on its line, and a line of two words
C23_Witness ==
    /\ wrap.pc = "returned"
    /\ \E k \in 1..Len(wrap.lines) :
            /\ WidthOf(wrap.lines[k]) > wrap.max_width
            /\ Len(Words(wrap.lines[k])) = 1
    /\ \E k \in 1..Len(wrap.lines) : Len(Words(wrap.lines[k])) >= 2

---------------------------------------------------------------------------
(* The vertical order of the anchors *)

\* the entries of element el of call g on page 1
OnPage1(g, els) == {k \in 1..Len(g.log) : g.log[k].el \in els /\ g.log[k].page = 1}

\* the address field, the date line, the subject line and the body start of call
\* g follow each other down the page, whatever the margins of the request
AnchorOrder(g) ==
    /\ ADDRESS_FIELD_TOP >= DATE_Y
    /\ DATE_Y > SUBJECT_Y
    /\ SUBJECT_Y > TEXT_START_Y
    /\ \A k \in Of(g, "address") : g.log[k].y <= ADDRESS_FIELD_TOP
    /\ \A k \in Of(g, "date") : g.log[k].y = DATE_Y /\ g.log[k].y <= ADDRESS_FIELD_TOP
    /\ \A k \in Of(g, "subject") :
            /\ g.log[k].y = SUBJECT_Y
            /\ \A j \in Of(g, "date") : g.log[k].y < g.log[j].y
    /\ \A k \in OnPage1(g, BodyEls) :
            /\ g.log[k].y <= TEXT_START_Y
            /\ \A j \in Of(g, "subject") \cup Of(g, "date") : g.log[k].y < g.log[j].y
    /\ \A j, k \in 1..Len(g.log) :
            (j < k /\ g.log[j].el \in {"address", "date", "subject"} \cup BodyEls
                   /\ g.log[k].el \in {"address", "date", "subject"} \cup BodyEls)
                => Rank(g.log[j].el) <= Rank(g.log[k].el)

---------------------------------------------------------------------------
(* HTMLToTextConverter on inputs put together from list markup *)

MaxListChunks == 6

\* text that names the place it has in the input
TextAt(n) == <<Digit(n)>>

\* what the n-th piece of a list input can be: a list tag, a whole item or a
\* stray end of an item
ListChunks(n) ==
    { <<StartTag("ul")>>, <<StartTag("ol")>>, <<EndTag("ul")>>, <<EndTag("ol")>>,
      Item(TextAt(n)), <<EndTag("li")>> }

ListAppend ==
    /\ html.pc \in {"idle", "build"}
    /\ html.chunks < MaxListChunks
    /\ \E chunk \in ListChunks(html.chunks + 1) :
          html' = [html EXCEPT !.pc = "build", !.tokens = @ \o chunk, !.chunks = @ + 1]
    /\ UNCHANGED <<rvars, pvars, wrap, fname, dvars>>

\* _parse_html_content(html_content)
ParseReturn ==
    /\ html.pc = "build"
    /\ html' = [html EXCEPT !.pc = "parsed", !.blocks = _parse_html_content(html.tokens)]
    /\ UNCHANGED <<rvars, pvars, wrap, fname, dvars>>

ListsNext == ListAppend \/ ParseReturn

SpecLists == Init /\ [][ListsNext]_vars

ListsOf(blocks) == {k \in 1..Len(blocks) : blocks[k].type = "list"}

\* the prefix of item n of a list of the given kind, as it is drawn
PrefixOf(list_type, n) ==
    IF list_type = "ul" THEN <<"bullet">> ELSE Decimal(n) \o <<".">>

\* C25: every list block the parser emits is a bullet or a numbered list with at
\* least one item; the items of a bullet list carry the bullet sign and the
\* items of a numbered list the numbers 1., 2., ... in order, from 1 in every
\* list, whatever was parsed before it.
C25_ListPrefixes ==
    html.pc = "parsed" =>
        \A k \in ListsOf(html.blocks) :
            LET block == html.blocks[k]
            IN  /\ block.list_type \in {"ul", "ol"}
                /\ block.items # <<>>
                /\ \A n \in 1..Len(block.items) :
                        Strip(block.items[n].prefix) = PrefixOf(block.list_type, n)

\* a numbered list of one item parsed after a bullet list of one item
C25_Witness ==
    /\ html.pc = "parsed"
    /\ Len(html.blocks) = 2
    /\ html.blocks[1].type = "list" /\ html.blocks[1].list_type = "ul"
    /\ html.blocks[2].type = "list" /\ html.blocks[2].list_type = "ol"
    /\ Strip(html.blocks[2].items[1].prefix) = <<"1", ".">>

---------------------------------------------------------------------------
(* Underlined text in the rich-text body *)

InRich(g) == g.pc \in {"rich", "save", "done"} /\ g.data.html_content # <<>>

\* every line of block k of call g is underlined: a text block with the style,
\* or a list all of whose items have it
Underlined(g, k) ==
    LET block == g.blocks[k]
    IN  \/ block.type = "text" /\ "underline" \in Range(block.styles)
        \/ /\ block.type = "list"
           /\ \A n \in 1..Len(block.items) : "underline" \in Range(block.items[n].styles)

\* no line of block k is underlined
NotUnderlined(g, k) ==
    LET block == g.blocks[k]
    IN  \/ block.type = "text" /\ "underline" \notin Range(block.styles)
        \/ /\ block.type = "list"
           /\ \A n \in 1..Len(block.items) : "underline" \notin Range(block.items[n].styles)

\* a rule under body entry e: on its page, at its x, 2 pt under its baseline, as
\* long as the text of e is wide in its font
RuleUnder(g, e) ==
    \E j \in Of(g, "rule") :
        /\ g.log[j].page = e.page
        /\ g.log[j].x = e.x
        /\ g.log[j].y = e.y - 2 * PT
        /\ g.log[j].w = stringWidth(e.text, e.font, FONT_SIZE)

\* the rules of the blocks of call g of the given types
UnderlineRules(g, types) ==
    \A k \in 1..Len(g.log) :
        (g.log[k].el = "body" /\ g.blocks[g.log[k].blk].type \in types) =>
            /\ Underlined(g, g.log[k].blk) => RuleUnder(g, g.log[k])
            /\ NotUnderlined(g, g.log[k].blk) =>
                    \A j \in Of(g, "rule") : g.log[j].blk # g.log[k].blk

\* C26: in the rich-text path every wrapped line of a text block or list item
\* with the underline style has a rule under it that is as long as the line is
\* wide, and a line without the style has none.
C26_UnderlineRule ==
    \A p \in Calls : InRich(gen[p]) => UnderlineRules(gen[p], {"text", "list"})

\* the same for text blocks alone
UnderlineRuleOfTextBlocks ==
    \A p \in Calls : InRich(gen[p]) => UnderlineRules(gen[p], {"text"})

---------------------------------------------------------------------------
(* HTMLToTextConverter on inputs put together from supported tags and text *)

MaxTokens == 4

ParseTags == {"b", "em", "u", "p", "ul", "li"}

\* what the n-th token of an input can be; every text run has a text of its own
ParseTokens(n) ==
    {StartTag(tag) : tag \in ParseTags} \cup {EndTag(tag) : tag \in ParseTags}
        \cup {Text(TextAt(n))}

TokenAppend ==
    /\ html.pc \in {"idle", "build"}
    /\ html.chunks < MaxTokens
    /\ \E t \in ParseTokens(html.chunks + 1) :
          html' = [html EXCEPT !.pc = "build", !.tokens = Append(@, t), !.chunks = @ + 1]
    /\ UNCHANGED <<rvars, pvars, wrap, fname, dvars>>

ParseNext == TokenAppend \/ ParseReturn

SpecParse == Init /\ [][ParseNext]_vars

\* the text runs of the input, by token index
TextRuns(tokens) == {k \in 1..Len(tokens) : tokens[k].k = "data"}

\* how many elements of the tags are open behind the first n tokens; an end tag
\* without an open element closes nothing
RECURSIVE Depth(_, _, _)
Depth(tokens, n, tags) ==
    IF n = 0 THEN 0
    ELSE LET d == Depth(tokens, n - 1, tags)
             t == tokens[n]
         IN  IF t.tag \notin tags THEN d
             ELSE IF t.k = "start" THEN d + 1
             ELSE IF d > 0 THEN d - 1 ELSE 0

\* token k lies inside an element of one of the tags
Inside(tokens, k, tags) == Depth(tokens, k - 1, tags) > 0

\* the text blocks and list items of the result, in order, as [text, styles]
RECURSIVE ItemsOf(_)
ItemsOf(items) ==
    IF items = <<>> THEN <<>>
    ELSE <<[text |-> Head(items).text, styles |-> Head(items).styles]>> \o ItemsOf(Tail(items))

RECURSIVE Emitted(_)
Emitted(blocks) ==
    IF blocks = <<>> THEN <<>>
    ELSE (CASE Head(blocks).type = "text" ->
                    <<[text |-> Head(blocks).content, styles |-> Head(blocks).styles]>>
            [] Head(blocks).type = "list" -> ItemsOf(Head(blocks).items)
            [] OTHER -> <<>>)
         \o Emitted(Tail(blocks))

\* the style a tag asks for
StyleTags == [bold |-> {"b", "strong"}, italic |-> {"i", "em"}, underline |-> {"u"}]

\* the emphasis of every emitted text run of the input is that of its markup
EmphasisKept(tokens, blocks) ==
    \A k \in TextRuns(tokens) :
        \A n \in 1..Len(Emitted(blocks)) :
            tokens[k].s[1] \in Range(Emitted(blocks)[n].text) =>
                \A style \in DOMAIN StyleTags :
                    style \in Range(Emitted(blocks)[n].styles)
                        <=> Inside(tokens, k, StyleTags[style])

\* C27: every run of text inside a b/strong, i/em or u element is emitted in a
\* text block or list item whose styles contain bold, italic or underline
\* respectively, and text outside such an element is emitted without that style.
C27_EmphasisKept ==
    html.pc = "parsed" => EmphasisKept(html.tokens, html.blocks)

\* all text of the input, and all text of the result, in order
RECURSIVE TextOfTokens(_)
TextOfTokens(tokens) ==
    IF tokens = <<>> THEN <<>>
    ELSE (IF Head(tokens).k = "data" THEN Head(tokens).s ELSE <<>>) \o TextOfTokens(Tail(tokens))

RECURSIVE TextOfEmitted(_)
TextOfEmitted(runs) ==
    IF runs = <<>> THEN <<>> ELSE Head(runs).text \o TextOfEmitted(Tail(runs))

\* C28: for every sequence of supported start tags, end tags and text every run
\* of text is in exactly one emitted text block or list item, in input order.
C28_TextKept ==
    html.pc = "parsed" => TextOfEmitted(Emitted(html.blocks)) = TextOfTokens(html.tokens)

\* the claim does hold for inputs without list markup
TextKeptWithoutLists ==
    (html.pc = "parsed"
        /\ \A k \in 1..Len(html.tokens) : html.tokens[k].tag \notin {"ul", "ol", "li"})
        => TextOfEmitted(Emitted(html.blocks)) = TextOfTokens(html.tokens)

---------------------------------------------------------------------------
(* The application rows and the archive (app.py) *)

MaxDeletes == 2

\* the primary key the database gives the next row of a table
NextId(rows) ==
    IF rows = {} THEN 1
    ELSE (CHOOSE m \in {r.id : r \in rows} : \A r \in rows : r.id <= m) + 1

\* load_user and login_required: the session's user still has a row
Authenticated(u) ==
    /\ u \in session.logged_in
    /\ \E r \in db.users : r.id = u

\* admin_required: the permission test at the start of an admin request
admin_required(u) ==
    /\ Authenticated(u)
    /\ \E r \in db.users : r.id = u /\ r.is_admin

\* POST /applications/<id>/delete by user u: the row is archived and marked,
\* whether or not it is marked already
application_delete(u, id) ==
    /\ Authenticated(u)
    /\ \E application \in db.applications :
        /\ application.id = id
        /\ application.user_id = u
        /\ deletes[application.content] < MaxDeletes
        /\ db' = [db EXCEPT
                    !.deleted_records = @ \cup
                        {[id |-> NextId(@), table_name |-> "applications",
                          record_id |-> application.id,
                          record_data |-> [user_id |-> application.user_id,
                                           content |-> application.content]]},
                    !.applications = (@ \ {application}) \cup
                        {[application EXCEPT !.is_deleted = TRUE]}]
        /\ deletes' = [deletes EXCEPT ![application.content] = @ + 1]
    /\ UNCHANGED <<rvars, pvars, fvars, session>>

\* POST /admin/applications/<id>/restore by admin a: the mark is taken off
admin_restore_application(a, id) ==
    /\ admin_required(a)
    /\ \E app \in db.applications :
        /\ app.id = id
        /\ db' = [db EXCEPT !.applications = (@ \ {app}) \cup
                                {[app EXCEPT !.is_deleted = FALSE]}]
    /\ UNCHANGED <<rvars, pvars, fvars, session, deletes>>

\* POST /admin/deleted/<id>/restore by admin a: an archived application becomes
\* a new row and leaves the archive; an archived user stays where it is
admin_restore_deleted(a, id) ==
    /\ admin_required(a)
    /\ \E record \in db.deleted_records :
        /\ record.id = id
        /\ IF record.table_name = "applications"
           THEN db' = [db EXCEPT
                    !.applications = @ \cup
                        {[id |-> NextId(@), user_id |-> record.record_data.user_id,
                          content |-> record.record_data.content,
                          is_deleted |-> FALSE]},
                    !.deleted_records = @ \ {record}]
           ELSE UNCHANGED db
    /\ UNCHANGED <<rvars, pvars, fvars, session, deletes>>

\* two users, the first an admin, both logged in; each owner's applications
\* as application_new left them; the archive empty or holding a deleted user
AppsInit ==
    /\ RenderInit /\ PdfInit /\ FnInit
    /\ \E o1 \in 1..2, o2 \in 1..2, archived \in BOOLEAN :
        db = [users |-> {[id |-> 1, is_active |-> TRUE, is_admin |-> TRUE],
                         [id |-> 2, is_active |-> TRUE, is_admin |-> FALSE]},
              applications |->
                    {[id |-> 1, user_id |-> o1, content |-> "A", is_deleted |-> FALSE],
                     [id |-> 2, user_id |-> o2, content |-> "B", is_deleted |-> FALSE]},
              deleted_records |->
                    IF archived
                    THEN {[id |-> 1, table_name |-> "users", record_id |-> 3,
                           record_data |-> [is_active |-> TRUE, is_admin |-> FALSE]]}
                    ELSE {}]
    /\ session = [logged_in |-> {1, 2}, req |-> [u \in UserIds |-> NoRequest]]
    /\ deletes = [c \in Contents |-> 0]

AppsNext ==
    \/ \E u \in UserIds, id \in 1..(2 + 2 * MaxDeletes) : application_delete(u, id)
    \/ \E a \in UserIds, id \in 1..(2 + 2 * MaxDeletes) : admin_restore_application(a, id)
    \/ \E a \in UserIds, id \in 1..(1 + 2 * MaxDeletes) : admin_restore_deleted(a, id)

\* deleting and restoring applications, one request at a time
SpecApps == AppsInit /\ [][AppsNext]_vars

\* the rows of the content that are not marked deleted
LiveRows(c) == {r \in db.applications : r.content = c /\ ~r.is_deleted}

\* C29: an application deleted once, and restored from the archive and by its
\* row in any order, has at most one row that is not marked deleted
C29_NeverMultiplied ==
    \A c \in Contents : deletes[c] = 1 => Cardinality(LiveRows(c)) <= 1

\* restoring from the archive alone, or the row alone, gives the application
\* back once: with the original row still marked, or no row made from the
\* archive, at most one row of an application deleted once is live
RestoredOnceByOneWay ==
    \A c \in Contents :
        (/\ deletes[c] = 1
         /\ \/ \E r \in db.applications : r.content = c /\ r.is_deleted
            \/ Cardinality({r \in db.applications : r.content = c}) = 1)
        => Cardinality(LiveRows(c)) <= 1

---------------------------------------------------------------------------
(* The admin user operations (app.py) *)

AdminOps == {"deactivate", "toggle-admin", "delete"}

\* POST /login of user u with the right password: only an active user gets a
\* session
login(u) ==
    /\ u \notin session.logged_in
    /\ \E user \in db.users : user.id = u /\ user.is_active
    /\ session' = [session EXCEPT !.logged_in = @ \cup {u}]
    /\ UNCHANGED <<rvars, pvars, fvars, db, deletes>>

\* the wrapper of an admin route lets the request of user u through to its
\* handler
decorated_function(u, op, user_id) ==
    /\ session.req[u] = NoRequest
    /\ admin_required(u)
    /\ session' = [session EXCEPT !.req[u] = [op |-> op, user_id |-> user_id]]
    /\ UNCHANGED <<rvars, pvars, fvars, db, deletes>>

\* what every handler does first: get_or_404 and the test against oneself;
\* TRUE when the handler goes on to change the row
Proceeds(u, user) ==
    /\ user.id = session.req[u].user_id
    /\ user.id # u

\* the request of u ends, with a 404, or the flash message about oneself, or
\* after its commit
Responded(u) == session' = [session EXCEPT !.req[u] = NoRequest]

Refused(u) ==
    /\ ~\E user \in db.users : Proceeds(u, user)
    /\ UNCHANGED db

admin_deactivate_user(u) ==
    /\ session.req[u].op = "deactivate"
    /\ \/ Refused(u)
       \/ \E user \in db.users :
            /\ Proceeds(u, user)
            /\ db' = [db EXCEPT !.users = (@ \ {user}) \cup
                                    {[user EXCEPT !.is_active = FALSE]}]
    /\ Responded(u)
    /\ UNCHANGED <<rvars, pvars, fvars, deletes>>

admin_toggle_admin(u) ==
    /\ session.req[u].op = "toggle-admin"
    /\ \/ Refused(u)
       \/ \E user \in db.users :
            /\ Proceeds(u, user)
            /\ db' = [db EXCEPT !.users = (@ \ {user}) \cup
                                    {[user EXCEPT !.is_admin = ~user.is_admin]}]
    /\ Responded(u)
    /\ UNCHANGED <<rvars, pvars, fvars, deletes>>

admin_delete_user(u) ==
    /\ session.req[u].op = "delete"
    /\ \/ Refused(u)
       \/ \E user \in db.users :
            /\ Proceeds(u, user)
            /\ db' = [db EXCEPT
                        !.deleted_records = @ \cup
                            {[id |-> NextId(@), table_name |-> "users",
                              record_id |-> user.id,
                              record_data |-> [is_active |-> user.is_active,
                                               is_admin |-> user.is_admin]]},
                        !.users = @ \ {user}]
    /\ Responded(u)
    /\ UNCHANGED <<rvars, pvars, fvars, deletes>>

\* the first user is the active admin the installation begins with; the
\* others are registered, activated or not, admins or not; nobody is logged in
AdminInit ==
    /\ RenderInit /\ PdfInit /\ FnInit
    /\ \E flags \in [UserIds \ {1} -> [is_active : BOOLEAN, is_admin : BOOLEAN]] :
        db = [users |-> {[id |-> 1, is_active |-> TRUE, is_admin |-> TRUE]} \cup
                        {[id |-> u, is_active |-> flags[u].is_active,
                          is_admin |-> flags[u].is_admin] : u \in UserIds \ {1}},
              applications |-> {},
              deleted_records |-> {}]
    /\ session = [logged_in |-> {}, req |-> [u \in UserIds |-> NoRequest]]
    /\ deletes = [c \in Contents |-> 0]

AdminNext ==
    \/ \E u \in UserIds : login(u)
    \/ \E u \in UserIds, op \in AdminOps, user_id \in UserIds :
            decorated_function(u, op, user_id)
    \/ \E u \in UserIds : admin_deactivate_user(u)
    \/ \E u \in UserIds : admin_toggle_admin(u)
    \/ \E u \in UserIds : admin_delete_user(u)

\* the admin user operations, the requests of different admins interleaving
SpecAdmin == AdminInit /\ [][AdminNext]_vars

ActiveAdmins == {user \in db.users : user.is_active /\ user.is_admin}

\* C30: whatever deactivate, toggle-admin and delete requests the admins
\* issue, some user that is both active and admin remains
C30_LastAdminKept == ActiveAdmins # {}

\* no request changes or removes the row of the user who issued it
OwnRowKept ==
    [][\A u \in UserIds :
        (session.req[u] # NoRequest /\ session'.req[u] = NoRequest)
            => {user \in db'.users : user.id = u} = {user \in db.users : user.id = u}]_vars

===========================================================================
